---- MODULE Spec2Model ----
(***************************************************************************)
(* bong-utils: the double-mapped SPSC byte ring (src/ngpcap/ring32.h), the *)
(* tap ngpcap (src/ngpcap/main.c, pcap.c) and the portal ngportal          *)
(* (src/ngportal/main.c, wormhole.c).                                      *)
(*                                                                         *)
(* The specifications share the variables and the ring operators:          *)
(*   SpecRing     the ring32.h operations driven as producer and consumer  *)
(*   SpecOps      single ring32.h calls on any ring                        *)
(*   Spec         the tap's readiness loop (main, read_event, write_event) *)
(*   FairSpec     Spec with the scheduling the loop relies on              *)
(*   SpecClose    Spec with far ends that go away                          *)
(*   SpecSetup    the tap's setup, its fatal errors, and the loop's start  *)
(*   SpecCleanup  the tap's setup and err_cleanup run more than once       *)
(*   SpecPortal   ngportal's parent and its helper child                   *)
(*   SpecArgs     ngportal's command line, jail checks and portal run      *)
(*   SpecSnaplen  ngpcap's option -s                                       *)
(*   SpecDiscipline  SpecOps and Spec together                             *)
(* Widths and sizes are scaled down: counters are CounterBits wide (32 in  *)
(* the source), a page is 2^LgPageSize bytes.                              *)
(***************************************************************************)
EXTENDS Integers, Sequences, FiniteSets, TLC

VARIABLES
    ring,       \* struct ring32: capacity, mask, index.start, index.end
    mem,        \* the capacity physical bytes behind maps.data / maps.copy
    aborted,    \* "none", or the assertion that stopped the process
    rx,         \* bytes stored into the ring (SpecRing: since it was last empty)
    tx,         \* bytes taken out of the ring (SpecRing: since it was last empty)
    seq,        \* value of the next byte the byte source produces
    laps,       \* how often index.end wrapped past 2^CounterBits (saturating)
    last,       \* SpecRing: the advance made alone (no byte moved) by the latest step;
                \* the tap: the passes of the running callback that ended in EAGAIN
    snaplen,    \* main's snaplen (option -s)
    pc,         \* where main is: register, loop, wait, dispatch, read_event, write_event
    ix,         \* main's ix
    ready,      \* ready[0 .. rc-1] of the latest kevent call, as the callbacks in udata
    evt,        \* evt[0].flags, evt[1].flags
    kq,         \* the kernel's two entries of G.kq: added, enabled, dispatch
    kqRetakes,  \* whether this kernel lets a change without EV_ADD reset EV_DISPATCH
    armed,      \* per side: a change-list entry enabled it since it last ran
    sock,       \* bytes queued in the data socket
    outWritable,\* whether standard output accepts bytes
    peer,       \* the far ends: data socket open/eof, standard output open/closed
    G,          \* main.c's static G: ctrl, data, pcap, kq (and whether buffer is mapped)
    handler,    \* whether err_set_exit(err_cleanup) has been called
    opts,       \* main's command line, and what main has parsed of it
    child,      \* ngportal's helper child: where it is, and its copy of G
    trace       \* the system and library calls of setup and teardown, in order

ringVars == <<ring, mem, aborted, rx, tx, seq, laps, last>>

tapVars == <<snaplen, pc, ix, ready, evt, kq, kqRetakes, armed, sock, outWritable>>

procVars == <<peer, G, handler, opts, child, trace>>

vars == <<ring, mem, aborted, rx, tx, seq, laps, last,
          snaplen, pc, ix, ready, evt, kq, kqRetakes, armed, sock, outWritable,
          peer, G, handler, opts, child, trace>>

----------------------------------------------------------------------------
(* Bounds of the model *)

\* width in bits of index.start / index.end (uint32_t in the source)
CounterBits == 4

\* SpecRing draws capacity from 2^0 .. 2^MaxLgCap
MaxLgCap == 2

\* saturation of the lap counter
MaxLaps == 2

\* most negative value handed to an advance in SpecRing
MaxNeg == 3

\* binary logarithm of the page size
LgPageSize == 1

\* largest snaplen the tap is started with (the smallest is 1)
MaxSnaplen == 2

\* largest number of capture specs (main's argc after the options)
MaxSpecs == 2

\* bytes the capture node sends in one run of Spec
MaxBytes == 10

\* bytes the data socket queues
MaxSock == 2

\* characters of the specs of ngportal's command line, in all
MaxArgv == 7

\* MAXHOSTNAMELEN (256 in the source) and NG_NODELEN (31 in the source)
MAXHOSTNAMELEN == 3
NG_NODELEN == 2

\* characters of the argument of ngpcap's option -s
MaxDigits == 3

\* saturation of the count of a callback's passes that ended in EAGAIN
MaxPasses == 2

Wrap == 2 ^ CounterBits

\* the byte source is the stream 0,1,2,0,1,2,...: its period divides no
\* capacity, so a byte that is lost, repeated or moved shows in the values
StreamByte(n) == n % 3

StreamBytes(from, k) == [j \in 1..k |-> StreamByte(from + j - 1)]

NULL == -1

IsPrefix(a, b) == Len(a) <= Len(b) /\ \A i \in 1..Len(a) : a[i] = b[i]

----------------------------------------------------------------------------
(* uint32_t arithmetic and C bit operations *)

U32(x) == x % Wrap

RECURSIVE BitAnd(_, _)
BitAnd(a, b) ==
    IF a = 0 \/ b = 0 THEN 0
    ELSE (a % 2) * (b % 2) + 2 * BitAnd(a \div 2, b \div 2)

----------------------------------------------------------------------------
(* ring32.h *)

\* SANITY_CHECK(rb): the three assertions on capacity and mask
SANITY_CHECK(rb) ==
    /\ rb.capacity # 0
    /\ rb.mask # 0
    /\ BitAnd(rb.capacity, rb.mask) = 0

\* faulty variant: the difference taken without the uint32_t wrap
ring32_count_nowrap(rb) == rb.end - rb.start

\* uint32_t count = (rb->index.end - rb->index.start);
ring32_count(rb) == U32(rb.end - rb.start)

\* the assertions ring32_count makes: SANITY_CHECK, count <= capacity
CountAsserts(rb) ==
    IF ~SANITY_CHECK(rb) THEN "sanity"
    ELSE IF ~(ring32_count(rb) <= rb.capacity) THEN "count"
    ELSE "none"

\* faulty variant: the whole capacity offered as free space
ring32_free_all(rb) == rb.capacity

ring32_free(rb) == U32(rb.capacity - ring32_count(rb))

ring32_full(rb) == rb.capacity = ring32_count(rb)

ring32_empty(rb) == rb.start = rb.end

\* faulty variant: the producer's pointer taken from index.start
ring32_read_buffer_start(rb) ==
    LET avail == ring32_free(rb) IN
    [ptr    |-> IF avail > 0 THEN BitAnd(rb.start, rb.mask) ELSE NULL,
     nbytes |-> avail]

\* the offset into maps.data the producer stores at (NULL when no space),
\* and *nbytes
ring32_read_buffer(rb) ==
    LET avail == ring32_free(rb) IN
    [ptr    |-> IF avail > 0 THEN BitAnd(rb.end, rb.mask) ELSE NULL,
     nbytes |-> avail]

\* faulty variant: the consumer's pointer taken without the mask
ring32_write_buffer_nomask(rb) ==
    LET count == ring32_count(rb) IN
    [ptr    |-> IF count > 0 THEN rb.start ELSE NULL,
     nbytes |-> count]

\* the offset into maps.data the consumer loads from (NULL when empty),
\* and *nbytes
ring32_write_buffer(rb) ==
    LET count == ring32_count(rb) IN
    [ptr    |-> IF count > 0 THEN BitAnd(rb.start, rb.mask) ELSE NULL,
     nbytes |-> count]

\* assert(n <= rb->capacity) of the advances: n is ssize_t, capacity is
\* uint32_t. Where ssize_t is wider than 32 bits (lp64) the comparison is
\* signed; where it is 32 bits wide n is converted to unsigned first.
AdvanceAsserts(rb, n, lp64) ==
    IF ~SANITY_CHECK(rb) THEN "sanity"
    ELSE IF n = -1 THEN "none"
    ELSE IF ~((IF lp64 THEN n ELSE U32(n)) <= rb.capacity) THEN "advance"
    ELSE "none"

\* faulty variant: no test for the failed read
ring32_read_advance_nocheck(rb, nread) ==
    [rb EXCEPT !.end = U32(rb.end + nread)]

ring32_read_advance(rb, nread) ==
    IF nread = -1 THEN rb
    ELSE [rb EXCEPT !.end = U32(rb.end + nread)]

\* faulty variant: the producer counter moved by the consumer's advance
ring32_write_advance_end(rb, nwrit) ==
    IF nwrit = -1 THEN rb
    ELSE [rb EXCEPT !.end = U32(rb.end + nwrit)]

\* faulty variant: the consumer counter moved one byte too far
ring32_write_advance_off(rb, nwrit) ==
    IF nwrit = -1 THEN rb
    ELSE [rb EXCEPT !.start = U32(rb.start + nwrit + 1)]

ring32_write_advance(rb, nwrit) ==
    IF nwrit = -1 THEN rb
    ELSE [rb EXCEPT !.start = U32(rb.start + nwrit)]

\* maps.copy is mapped right after maps.data onto the same pages: offset v
\* of maps.data, 0 <= v < 2*capacity, is physical byte v mod capacity
Phys(rb, v) == v % rb.capacity

InMapping(rb, v) == 0 <= v /\ v < 2 * rb.capacity

\* an access of k bytes at maps.data[ptr ..] that leaves the two mappings
\* (SIGSEGV, or EFAULT from the system call)
Faults(rb, ptr, k) ==
    k > 0 /\ ~(InMapping(rb, ptr) /\ InMapping(rb, ptr + k - 1))

\* what a system call that stores bytes at maps.data[ptr ..] leaves in
\* memory: physical byte c takes the last of the bytes stored onto it
Store(rb, m, ptr, bytes) ==
    [c \in DOMAIN m |->
        LET first == ((c - ptr) % rb.capacity) + 1
            j == first + rb.capacity * ((Len(bytes) - first) \div rb.capacity)
        IN  IF first <= Len(bytes) THEN bytes[j] ELSE m[c]]

\* the k bytes a system call loads from maps.data[ptr ..]
Load(rb, m, ptr, k) == [j \in 1..k |-> m[Phys(rb, ptr + j - 1)]]

----------------------------------------------------------------------------
(* SpecRing: the ring32.h calls applied to a ring structure *)

Pow2s == {2 ^ k : k \in 0..MaxLgCap}

NoCall == [op |-> "none", k |-> 0]

NoEntry == [added |-> FALSE, enabled |-> FALSE, dispatch |-> FALSE]

\* both far ends are there; SIGPIPE is as the process inherited it
PeerOpen == [in |-> "open", out |-> "open", sigpipe |-> "unknown"]

NoOpts == [load_kmod |-> FALSE, jail |-> FALSE, argc |-> 0]

\* no helper child has been forked
NoChild == [pc |-> "none", fd |-> -1, wh |-> <<0, 0>>, farside |-> 0, of |-> 0]

\* static struct { ... } G = { .ctrl = -1, .data = -1, .pcap = 0, .kq = -1 }
StaticG == [buffer |-> FALSE, ctrl |-> -1, data |-> -1, pcap |-> 0, kq |-> -1]

\* a ring is a struct ring32 with a power-of-two capacity and
\* mask = capacity - 1, empty at any counter value, over zero-filled pages
InitRing ==
    /\ \E cap \in Pow2s : \E s \in 0..(Wrap - 1) :
          /\ ring = [capacity |-> cap, mask |-> cap - 1, start |-> s, end |-> s]
          /\ mem = [c \in 0..(cap - 1) |-> 0]
    /\ aborted = "none"
    /\ rx = <<>>
    /\ tx = <<>>
    /\ seq = 0
    /\ laps = 0
    /\ last = NoCall
    /\ snaplen = 0
    /\ pc = "ring"
    /\ ix = 0
    /\ ready = <<>>
    /\ evt = <<{}, {}>>
    /\ kq = <<NoEntry, NoEntry>>
    /\ kqRetakes = FALSE
    /\ armed = <<FALSE, FALSE>>
    /\ sock = <<>>
    /\ outWritable = FALSE
    /\ peer = PeerOpen
    /\ G = StaticG
    /\ handler = FALSE
    /\ opts = NoOpts
    /\ child = NoChild
    /\ trace = <<>>

\* read(2) and write(2) return -1 or a count: a run of SpecRing ends with the
\* first advance it hands another negative value
Running == pc = "ring" /\ aborted = "none" /\ last.k >= -1

Abort(what) ==
    /\ aborted' = what
    /\ UNCHANGED <<ring, mem, rx, tx, seq, laps>>

LapsAfter(rb, k) == IF rb.end + k >= Wrap /\ laps < MaxLaps THEN laps + 1 ELSE laps

\* producer: read_buffer, k bytes stored through the pointer, read_advance(k)
RingFill(k) ==
    /\ UNCHANGED procVars
    /\ Running
    /\ UNCHANGED tapVars
    /\ last' = NoCall
    /\ IF CountAsserts(ring) # "none" THEN Abort(CountAsserts(ring))
       ELSE LET buf == ring32_read_buffer(ring)
                bytes == StreamBytes(seq, k)
                fresh == ring32_empty(ring)
            IN  /\ 1 <= k /\ k <= buf.nbytes
                /\ (IF fresh THEN 0 ELSE Len(rx)) + k <= ring.capacity + 1
                /\ IF Faults(ring, buf.ptr, k) THEN Abort("fault")
                   ELSE /\ mem' = Store(ring, mem, buf.ptr, bytes)
                        /\ ring' = ring32_read_advance(ring, k)
                        /\ rx' = (IF fresh THEN <<>> ELSE rx) \o bytes
                        /\ tx' = IF fresh THEN <<>> ELSE tx
                        /\ seq' = StreamByte(seq + k)
                        /\ laps' = LapsAfter(ring, k)
                        /\ aborted' = AdvanceAsserts(ring, k, TRUE)

\* consumer: write_buffer, k bytes loaded through the pointer, write_advance(k)
RingDrain(k) ==
    /\ UNCHANGED procVars
    /\ Running
    /\ UNCHANGED tapVars
    /\ last' = NoCall
    /\ IF CountAsserts(ring) # "none" THEN Abort(CountAsserts(ring))
       ELSE LET buf == ring32_write_buffer(ring)
            IN  /\ 1 <= k /\ k <= buf.nbytes
                /\ Len(tx) + k <= ring.capacity + 1
                /\ IF Faults(ring, buf.ptr, k) THEN Abort("fault")
                   ELSE /\ tx' = tx \o Load(ring, mem, buf.ptr, k)
                        /\ ring' = ring32_write_advance(ring, k)
                        /\ aborted' = AdvanceAsserts(ring, k, TRUE)
                        /\ UNCHANGED <<mem, rx, seq, laps>>

\* an advance handed the result of a system call that moved no byte: 0, -1,
\* or another negative value
RingAdvanceOnly(side, k, lp64) ==
    /\ UNCHANGED procVars
    /\ Running
    /\ UNCHANGED tapVars
    /\ last' = IF k < 0 THEN [op |-> side, k |-> k] ELSE NoCall
    /\ aborted' = AdvanceAsserts(ring, k, lp64)
    /\ IF aborted' # "none" THEN UNCHANGED ring
       ELSE IF side = "read_advance"
            THEN ring' = ring32_read_advance(ring, k)
            ELSE ring' = ring32_write_advance(ring, k)
    /\ UNCHANGED <<mem, rx, tx, seq, laps>>

NextRing ==
    \/ \E k \in 1..(2 ^ MaxLgCap) : RingFill(k)
    \/ \E k \in 1..(2 ^ MaxLgCap) : RingDrain(k)
    \/ \E side \in {"read_advance", "write_advance"} :
       \E k \in (0 - MaxNeg)..0 : \E lp64 \in BOOLEAN :
          RingAdvanceOnly(side, k, lp64)

SpecRing == InitRing /\ [][NextRing]_vars

----------------------------------------------------------------------------
(* SpecOps: single ring32.h calls on any struct ring32 that satisfies the    *)
(* invariants of the data model                                             *)

\* capacity > 0, (capacity & mask) == 0, end - start <= capacity (unsigned)
RingInvariants(rb) ==
    /\ rb.capacity > 0
    /\ BitAnd(rb.capacity, rb.mask) = 0
    /\ ring32_count(rb) <= rb.capacity

Queries == {"count", "free", "full", "empty", "read_buffer", "write_buffer"}

\* the assertions a query makes: ring32_empty makes SANITY_CHECK only, the
\* others go through ring32_count
QueryAsserts(rb, op) ==
    IF op = "empty"
    THEN (IF SANITY_CHECK(rb) THEN "none" ELSE "sanity")
    ELSE CountAsserts(rb)

\* a struct ring32 with a power-of-two capacity and mask = capacity - 1,
\* holding any number of bytes at any counter value
InitOps ==
    /\ \E cap \in Pow2s : \E s \in 0..(Wrap - 1) : \E n \in 0..cap :
          /\ ring = [capacity |-> cap, mask |-> cap - 1, start |-> s, end |-> U32(s + n)]
          /\ RingInvariants(ring)
          /\ mem = [c \in 0..(cap - 1) |-> 0]
    /\ aborted = "none"
    /\ rx = <<>>
    /\ tx = <<>>
    /\ seq = 0
    /\ laps = 0
    /\ last = NoCall
    /\ snaplen = 0
    /\ pc = "ops"
    /\ ix = 0
    /\ ready = <<>>
    /\ evt = <<{}, {}>>
    /\ kq = <<NoEntry, NoEntry>>
    /\ kqRetakes = FALSE
    /\ armed = <<FALSE, FALSE>>
    /\ sock = <<>>
    /\ outWritable = FALSE
    /\ peer = PeerOpen
    /\ G = StaticG
    /\ handler = FALSE
    /\ opts = NoOpts
    /\ child = NoChild
    /\ trace = <<>>

\* ring32_count, ring32_free, ring32_full, ring32_empty, ring32_read_buffer,
\* ring32_write_buffer: the structure is not written
OpsQuery(op) ==
    /\ UNCHANGED procVars
    /\ pc = "ops" /\ aborted = "none"
    /\ last' = [op |-> op, k |-> 0]
    /\ aborted' = QueryAsserts(ring, op)
    /\ UNCHANGED <<ring, mem, rx, tx, seq, laps>>
    /\ UNCHANGED tapVars

\* ring32_read_advance(rb, k), ring32_write_advance(rb, k)
OpsAdvance(side, k) ==
    /\ UNCHANGED procVars
    /\ pc = "ops" /\ aborted = "none"
    /\ k <= ring.capacity
    /\ last' = [op |-> side, k |-> k]
    /\ aborted' = AdvanceAsserts(ring, k, TRUE)
    /\ IF aborted' # "none" THEN UNCHANGED ring
       ELSE IF side = "read_advance"
            THEN ring' = ring32_read_advance(ring, k)
            ELSE ring' = ring32_write_advance(ring, k)
    /\ UNCHANGED <<mem, rx, tx, seq, laps>>
    /\ UNCHANGED tapVars

NextOps ==
    \/ \E op \in Queries : OpsQuery(op)
    \/ \E side \in {"read_advance", "write_advance"} :
       \E k \in 0..(2 ^ MaxLgCap) : OpsAdvance(side, k)

SpecOps == InitOps /\ [][NextOps]_vars

----------------------------------------------------------------------------
(* ngpcap main.c: ring size *)

\* getpagesize()
PageSize == 2 ^ LgPageSize

RECURSIVE BitOr(_, _)
BitOr(a, b) ==
    IF a = 0 THEN b
    ELSE IF b = 0 THEN a
    ELSE (IF a % 2 = 1 \/ b % 2 = 1 THEN 1 ELSE 0)
         + 2 * BitOr(a \div 2, b \div 2)

\* n | (n >> k)
OrShift(n, k) == BitOr(n, n \div (2 ^ k))

\* ffsl(3): 1-based index of the lowest set bit, 0 for 0
RECURSIVE ffsl(_)
ffsl(n) == IF n = 0 THEN 0 ELSE IF n % 2 = 1 THEN 1 ELSE 1 + ffsl(n \div 2)

\* faulty variant: one page whatever the size
calc_lgpages_one_page(size) == 0

\* calc_lgpages(size), for 1 <= size: pages rounded up, then up to a power
\* of two, as its binary logarithm
calc_lgpages(size) ==
    LET npage == (size + PageSize - 1) \div PageSize
        smear == OrShift(OrShift(OrShift(OrShift(OrShift(npage - 1, 1), 2), 4), 8), 16)
    IN  ffsl(smear + 1) - 1

\* ring32_init(&G.buffer, lgpages): capacity = page size << lgpages, counters
\* as the static G leaves them
ring32_init(lgpages) ==
    LET cap == PageSize * (2 ^ lgpages)
    IN  [capacity |-> cap, mask |-> cap - 1, start |-> 0, end |-> 0]

----------------------------------------------------------------------------
(* ngpcap main.c: the readiness loop *)

READ == 1
WRITE == 2

Sides == {READ, WRITE}

\* the callback in udata of evt[0], evt[1]
Callback(side) == IF side = READ THEN "read_event" ELSE "write_event"

EAGAIN == "EAGAIN"

\* kqueue(2): what the kernel does with one change-list entry. EV_ADD makes
\* the entry, enabled unless EV_DISABLE is given, with the behaviour flags
\* given. A change of an entry that exists enables or disables it; kqueue(2)
\* does not say whether it also resets EV_DISPATCH, so both kernels are
\* modelled.
kevent_change(entry, flags, retakes) ==
    IF "EV_ADD" \in flags /\ ~entry.added
    THEN [added    |-> TRUE,
          enabled  |-> "EV_DISABLE" \notin flags,
          dispatch |-> "EV_DISPATCH" \in flags]
    ELSE IF ~entry.added THEN entry
    ELSE [added    |-> TRUE,
          enabled  |-> IF "EV_ENABLE" \in flags THEN TRUE
                       ELSE IF "EV_DISABLE" \in flags THEN FALSE
                       ELSE entry.enabled,
          dispatch |-> IF retakes THEN "EV_DISPATCH" \in flags
                       ELSE entry.dispatch]

\* kqueue(2): an entry is returned when it is enabled and its filter is
\* true: EVFILT_READ when the socket holds data or its peer has closed,
\* EVFILT_WRITE when standard output has room or its reader has closed
Triggered(side) ==
    /\ kq[side].added
    /\ kq[side].enabled
    /\ IF side = READ THEN (sock # <<>> \/ peer.in # "open")
                      ELSE (outWritable \/ peer.out # "open")

\* kqueue(2): EV_DISPATCH disables the entry when it is returned
kevent_deliver(entry) ==
    IF entry.dispatch THEN [entry EXCEPT !.enabled = FALSE] ELSE entry

\* EV_SET(&evt[0], ..., EV_ADD, ...), EV_SET(&evt[1], ..., EV_ADD, ...)
RegisterFlags == <<{"EV_ADD"}, {"EV_ADD"}>>

\* if (ring32_free(&G.buffer) >= snaplen)
can_read(rb, snap) == ring32_free(rb) >= snap

\* faulty variant: the test for an empty ring inverted
can_write_inverted(rb) == ring32_empty(rb)

\* if (!ring32_empty(&G.buffer))
can_write(rb) == ~ring32_empty(rb)

\* faulty variant: both entries are passed in every iteration
ChangeList_both(rb, snap) == Sides

\* the sides main puts on the change-list of one iteration: chg and nchg
ChangeList(rb, snap) ==
    LET chg == IF can_read(rb, snap) THEN 1 ELSE 2
        nchg == 2 - (IF can_read(rb, snap) THEN 0 ELSE 1)
                  - (IF can_write(rb) THEN 0 ELSE 1)
    IN  {side \in Sides : chg <= side /\ side < chg + nchg}

\* evt[i].flags after the two |= of one iteration
LoopFlags(rb, snap, flags) ==
    [i \in 1..2 |->
        IF (i = READ /\ can_read(rb, snap)) \/ (i = WRITE /\ can_write(rb))
        THEN flags[i] \cup {"EV_ENABLE", "EV_DISPATCH"}
        ELSE flags[i]]

\* G once setup has made the sockets, the ng_pcap node and the kqueue
TapG == [buffer |-> TRUE, ctrl |-> 3, data |-> 4, pcap |-> 1, kq |-> 5]

\* the state main is in when it has made G.kq and is about to register: the
\* ring sized for 3 * snaplen, the sockets open and empty
InitTap ==
    /\ snaplen \in 1..MaxSnaplen
    /\ ring = ring32_init(calc_lgpages(snaplen * 3))
    /\ mem = [c \in 0..(ring.capacity - 1) |-> 0]
    /\ aborted = "none"
    /\ rx = <<>>
    /\ tx = <<>>
    /\ seq = 0
    /\ laps = 0
    /\ last = NoCall
    /\ pc = "register"
    /\ ix \in 1..MaxSpecs
    /\ ready = <<>>
    /\ evt = RegisterFlags
    /\ kq = <<NoEntry, NoEntry>>
    /\ kqRetakes \in BOOLEAN
    /\ armed = <<FALSE, FALSE>>
    /\ sock = <<>>
    /\ outWritable \in BOOLEAN
    /\ peer = PeerOpen
    /\ G = TapG
    /\ handler = TRUE
    /\ opts = [load_kmod |-> TRUE, jail |-> FALSE, argc |-> ix]
    /\ child = NoChild
    /\ trace = <<>>

TapAbort(what) ==
    /\ aborted' = what
    /\ pc' = "abort"
    /\ UNCHANGED <<ring, mem, rx, tx, seq, laps, last, snaplen, ix, ready, evt,
                   kq, kqRetakes, armed, sock, outWritable, peer>>

\* the default action of SIGPIPE: the process is gone, no handler runs
Killed ==
    /\ pc' = "killed"
    /\ UNCHANGED <<ring, mem, aborted, rx, tx, seq, laps, last, snaplen, ix,
                   ready, evt, kq, kqRetakes, armed, sock, outWritable, peer>>

\* kevent(G.kq, evt, nitems(evt), NULL, 0, NULL), then EV_ADD is cleared
Register ==
    /\ UNCHANGED procVars
    /\ pc = "register"
    /\ kq' = [side \in Sides |-> kevent_change(kq[side], evt[side], kqRetakes)]
    /\ evt' = [i \in 1..2 |-> evt[i] \ {"EV_ADD"}]
    /\ pc' = "loop"
    /\ UNCHANGED <<ring, mem, aborted, rx, tx, seq, laps, last, snaplen, ix,
                   ready, kqRetakes, armed, sock, outWritable>>

\* top of the loop: the change-list is built, assert(ix != 0), and kevent
\* applies the change-list
KeventChange ==
    /\ UNCHANGED procVars
    /\ pc = "loop"
    /\ IF CountAsserts(ring) # "none" THEN TapAbort(CountAsserts(ring))
       ELSE IF ix = 0 THEN TapAbort("ix")
       ELSE LET flags == LoopFlags(ring, snaplen, evt)
                chg == ChangeList(ring, snaplen)
            IN  /\ evt' = flags
                /\ kq' = [side \in Sides |->
                            IF side \in chg
                            THEN kevent_change(kq[side], flags[side], kqRetakes)
                            ELSE kq[side]]
                /\ armed' = [side \in Sides |-> armed[side] \/ side \in chg]
                /\ pc' = "wait"
                /\ UNCHANGED <<ring, mem, aborted, rx, tx, seq, laps, last,
                               snaplen, ix, ready, kqRetakes, sock, outWritable>>

\* kevent returns: every triggered entry is in ready[], in either order
KeventReturn ==
    /\ UNCHANGED procVars
    /\ pc = "wait"
    /\ LET trig == {side \in Sides : Triggered(side)}
       IN  /\ trig # {}
           /\ \E order \in {<<READ, WRITE>>, <<WRITE, READ>>} :
                 ready' = SelectSeq(order, LAMBDA side : side \in trig)
           /\ kq' = [side \in Sides |->
                       IF side \in trig THEN kevent_deliver(kq[side]) ELSE kq[side]]
    /\ ix' = 0
    /\ pc' = "dispatch"
    /\ UNCHANGED <<ring, mem, aborted, rx, tx, seq, laps, last, snaplen, evt,
                   kqRetakes, armed, sock, outWritable>>

\* for (ix = 0; ix < rc; ix++) process(ready[ix].ident, &G.buffer): the call
Invoke ==
    /\ UNCHANGED procVars
    /\ pc = "dispatch"
    /\ ix < Len(ready)
    /\ pc' = Callback(ready[ix + 1])
    /\ armed' = [armed EXCEPT ![ready[ix + 1]] = FALSE]
    /\ UNCHANGED <<ring, mem, aborted, rx, tx, seq, laps, last, snaplen, ix,
                   ready, evt, kq, kqRetakes, sock, outWritable>>

\* the for loop ends and the do loop starts over
LoopAgain ==
    /\ UNCHANGED procVars
    /\ pc = "dispatch"
    /\ ix >= Len(ready)
    /\ pc' = "loop"
    /\ UNCHANGED <<ring, mem, aborted, rx, tx, seq, laps, last, snaplen, ix,
                   ready, evt, kq, kqRetakes, armed, sock, outWritable>>

\* what read(fd, buf, count) on the non-blocking socket may return
ReadResults(count) ==
    IF count = 0 THEN {[n |-> 0, errno |-> "none"]}
    ELSE IF sock = <<>> /\ peer.in # "open" THEN {[n |-> 0, errno |-> "none"]}
    ELSE IF sock = <<>> THEN {[n |-> -1, errno |-> EAGAIN]}
    ELSE {[n |-> r, errno |-> "none"] : r \in 0..(IF count < Len(sock) THEN count ELSE Len(sock))}
         \cup {[n |-> -1, errno |-> "EINTR"]}

\* what write(fd, buf, count) on non-blocking standard output may return.
\* Once the reader has closed, the write raises SIGPIPE, which ends the
\* process unless the signal is ignored, and then fails with EPIPE.
WriteResults(count) ==
    IF count = 0 THEN {[n |-> 0, errno |-> "none"]}
    ELSE IF peer.out # "open"
    THEN {[n |-> -1, errno |-> IF peer.sigpipe = "ignored" THEN "EPIPE" ELSE "SIGPIPE"]}
    ELSE IF ~outWritable THEN {[n |-> -1, errno |-> EAGAIN]}
    ELSE {[n |-> w, errno |-> "none"] : w \in 0..count}
         \cup {[n |-> -1, errno |-> "EINTR"]}

\* where a callback goes after one pass of its do loop: while (rc == -1 &&
\* errno == EAGAIN) takes it back to the system call, anything else returns
\* to main's for loop. last counts the passes that went back (saturating).
AfterIo(res, op) ==
    IF res.n = -1 /\ res.errno = EAGAIN
    THEN /\ UNCHANGED <<pc, ix>>
         /\ last' = [op |-> op,
                     k |-> IF last.k < MaxPasses THEN last.k + 1 ELSE last.k]
    ELSE /\ pc' = "dispatch"
         /\ ix' = ix + 1
         /\ last' = NoCall

\* one pass of read_event's do loop: read into read_buffer, read_advance
read_event ==
    /\ UNCHANGED <<G, handler, opts, child, trace>>
    /\ pc = "read_event"
    /\ IF CountAsserts(ring) # "none" THEN TapAbort(CountAsserts(ring))
       ELSE LET buf == ring32_read_buffer(ring) IN
            \E res \in ReadResults(buf.nbytes) :
               IF Faults(ring, buf.ptr, res.n) THEN TapAbort("fault")
               ELSE IF AdvanceAsserts(ring, res.n, TRUE) # "none"
               THEN TapAbort(AdvanceAsserts(ring, res.n, TRUE))
               ELSE LET k == IF res.n = -1 THEN 0 ELSE res.n
                        bytes == SubSeq(sock, 1, k)
                    IN  /\ mem' = Store(ring, mem, buf.ptr, bytes)
                        /\ sock' = SubSeq(sock, k + 1, Len(sock))
                        /\ rx' = rx \o bytes
                        /\ ring' = ring32_read_advance(ring, res.n)
                        /\ laps' = LapsAfter(ring, k)
                        /\ peer' = IF res.n = 0 /\ buf.nbytes > 0 /\ sock = <<>>
                                   THEN [peer EXCEPT !.in = "seen"]
                                   ELSE peer
                        /\ AfterIo(res, "read")
                        /\ UNCHANGED <<aborted, tx, seq, snaplen, ready,
                                       evt, kq, kqRetakes, armed, outWritable>>

\* one pass of write_event's do loop: write from write_buffer, write_advance
write_event ==
    /\ UNCHANGED <<G, handler, opts, child, trace>>
    /\ pc = "write_event"
    /\ IF CountAsserts(ring) # "none" THEN TapAbort(CountAsserts(ring))
       ELSE LET buf == ring32_write_buffer(ring) IN
            \E res \in WriteResults(buf.nbytes) :
               IF res.errno = "SIGPIPE" THEN Killed
               ELSE IF Faults(ring, buf.ptr, res.n) THEN TapAbort("fault")
               ELSE IF AdvanceAsserts(ring, res.n, TRUE) # "none"
               THEN TapAbort(AdvanceAsserts(ring, res.n, TRUE))
               ELSE LET k == IF res.n = -1 THEN 0 ELSE res.n
                    IN  /\ tx' = tx \o Load(ring, mem, buf.ptr, k)
                        /\ ring' = ring32_write_advance(ring, res.n)
                        /\ peer' = IF res.errno = "EPIPE"
                                   THEN [peer EXCEPT !.out = "epipe"]
                                   ELSE peer
                        /\ AfterIo(res, "write")
                        /\ UNCHANGED <<mem, aborted, rx, seq, laps, snaplen,
                                       ready, evt, kq, kqRetakes, armed, sock,
                                       outWritable>>

\* main is at its kevent registration or in its loop (setup is done and the
\* process has not been ended by an assertion, a signal or err)
InLoop ==
    pc \in {"register", "loop", "wait", "dispatch", "read_event", "write_event"}

\* the capture node sends k more bytes to the data socket
Arrive(k) ==
    /\ UNCHANGED procVars
    /\ InLoop /\ peer.in = "open"
    /\ Len(rx) + Len(sock) + k <= MaxBytes
    /\ Len(sock) + k <= MaxSock
    /\ sock' = sock \o StreamBytes(seq, k)
    /\ seq' = StreamByte(seq + k)
    /\ UNCHANGED <<ring, mem, aborted, rx, tx, laps, last, snaplen, pc, ix,
                   ready, evt, kq, kqRetakes, armed, outWritable>>

\* the reader of standard output stops taking bytes, or takes them again
OutputTurns ==
    /\ UNCHANGED procVars
    /\ InLoop /\ peer.out = "open"
    /\ outWritable' = ~outWritable
    /\ UNCHANGED <<ring, mem, aborted, rx, tx, seq, laps, last, snaplen, pc, ix,
                   ready, evt, kq, kqRetakes, armed, sock>>

Next ==
    \/ Register
    \/ KeventChange
    \/ KeventReturn
    \/ Invoke
    \/ LoopAgain
    \/ read_event
    \/ write_event
    \/ \E k \in 1..MaxSock : Arrive(k)
    \/ OutputTurns

Spec == InitTap /\ [][Next]_vars

\* the capture node goes away: the data socket reports end of stream
PeerCloses ==
    /\ InLoop /\ pc # "register"
    /\ peer.in = "open"
    /\ peer' = [peer EXCEPT !.in = "eof"]
    /\ UNCHANGED <<ring, mem, aborted, rx, tx, seq, laps, last, snaplen, pc, ix,
                   ready, evt, kq, kqRetakes, armed, sock, outWritable,
                   G, handler, opts, child, trace>>

\* the reader of standard output goes away; ign: the process was started
\* with SIGPIPE ignored (main.c never sets its disposition)
DownstreamCloses(ign) ==
    /\ InLoop /\ pc # "register"
    /\ peer.out = "open"
    /\ peer' = [peer EXCEPT !.out = "closed",
                            !.sigpipe = IF ign THEN "ignored" ELSE "default"]
    /\ UNCHANGED <<ring, mem, aborted, rx, tx, seq, laps, last, snaplen, pc, ix,
                   ready, evt, kq, kqRetakes, armed, sock, outWritable,
                   G, handler, opts, child, trace>>

NextClose ==
    \/ Next
    \/ PeerCloses
    \/ \E ign \in BOOLEAN : DownstreamCloses(ign)

\* the readiness loop with far ends that may go away
SpecClose == InitTap /\ [][NextClose]_vars

\* The loop runs: main takes its next step whenever it has one (a blocked
\* kevent returns once an enabled entry is triggered), and a system call
\* that can move bytes does not fail or move nothing for ever.
FairSpec ==
    /\ Spec
    /\ WF_vars(Register)
    /\ WF_vars(KeventChange)
    /\ WF_vars(KeventReturn)
    /\ WF_vars(Invoke)
    /\ WF_vars(LoopAgain)
    /\ WF_vars(read_event)
    /\ WF_vars(write_event)
    /\ SF_vars(read_event /\ Len(rx') > Len(rx))
    /\ SF_vars(write_event /\ Len(tx') > Len(tx))

----------------------------------------------------------------------------
(* ngpcap main.c: setup and teardown *)

\* faulty variant: the snoop hook attached before the snap length is set
SetupOrder_snoop_first ==
    <<"kld_ng_socket", "kld_ng_pcap", "jail_attach", "ring32_init",
      "ng_create_context", "ngp_connect_src", "ngp_set_type",
      "ngp_connect_snp", "ngp_set_snaplen", "set_nonblocking_data",
      "set_nonblocking_stdout", "kqueue", "register">>

\* the calls of main's setup that can end the process, in program order;
\* ngp_connect_src and ngp_set_type are the body of the for loop over the specs
SetupOrder ==
    <<"kld_ng_socket", "kld_ng_pcap", "jail_attach", "ring32_init",
      "ng_create_context", "ngp_connect_src", "ngp_set_type",
      "ngp_set_snaplen", "ngp_connect_snp", "set_nonblocking_data",
      "set_nonblocking_stdout", "kqueue", "register">>

SetupSteps == {SetupOrder[i] : i \in 1..(Len(SetupOrder) - 1)}

\* the call main makes after step, outside the for loop
After(step) ==
    LET i == CHOOSE j \in 1..Len(SetupOrder) : SetupOrder[j] = step
    IN  SetupOrder[i + 1]

\* faulty variant: the handler set whatever ring32_init returned
InstallsHandler_always(step, ok) == step = "ring32_init"

\* if (ring32_init(...) == -1) err(...); else err_set_exit(err_cleanup);
InstallsHandler(step, ok) == step = "ring32_init" /\ ok

\* faulty variant: the sockets closed before the node is shut down
err_cleanup_close_first(g) ==
    <<"ring32_fini">>
    \o (IF g.kq # -1 THEN <<"close_kq">> ELSE <<>>)
    \o (IF g.ctrl = -1 THEN <<>>
        ELSE <<"close_ctrl", "close_data">>
             \o (IF g.pcap # 0 THEN <<"ng_shutdown_node">> ELSE <<>>))

\* err_cleanup: the calls it makes, in order, for the G it finds
err_cleanup(g) ==
    <<"ring32_fini">>
    \o (IF g.kq # -1 THEN <<"close_kq">> ELSE <<>>)
    \o (IF g.ctrl = -1 THEN <<>>
        ELSE (IF g.pcap # 0 THEN <<"ng_shutdown_node">> ELSE <<>>)
             \o <<"close_ctrl", "close_data">>)

\* one entry of trace per call: the call and its argument (0 where none)
Calls(names) == [i \in 1..Len(names) |-> <<names[i], 0>>]

\* where in main the process is, as a number
StepNo(step) ==
    IF step \in SetupSteps
    THEN CHOOSE j \in 1..Len(SetupOrder) : SetupOrder[j] = step
    ELSE Len(SetupOrder)

\* err(3): the handler set with err_set_exit runs, then the process exits;
\* trace gets the place of the failure and the calls of the handler
Err(installed) ==
    /\ pc' = "exit"
    /\ trace' = trace \o <<<<"err", StepNo(pc)>>>>
                      \o (IF installed THEN Calls(err_cleanup(G)) ELSE <<>>)

\* main starts its setup: options parsed, nothing acquired
InitSetup ==
    /\ snaplen \in 1..MaxSnaplen
    /\ opts \in [load_kmod : BOOLEAN, jail : BOOLEAN, argc : 1..MaxSpecs]
    /\ ring = [capacity |-> 0, mask |-> 0, start |-> 0, end |-> 0]
    /\ mem = <<>>
    /\ aborted = "none"
    /\ rx = <<>>
    /\ tx = <<>>
    /\ seq = 0
    /\ laps = 0
    /\ last = NoCall
    /\ pc = SetupOrder[1]
    /\ ix = 0
    /\ ready = <<>>
    /\ evt = <<{}, {}>>
    /\ kq = <<NoEntry, NoEntry>>
    /\ kqRetakes \in BOOLEAN
    /\ armed = <<FALSE, FALSE>>
    /\ sock = <<>>
    /\ outWritable \in BOOLEAN
    /\ peer = PeerOpen
    /\ G = StaticG
    /\ handler = FALSE
    /\ child = NoChild
    /\ trace = <<>>

\* a step of setup that changes neither the ring nor the loop's state
SetupUnchanged ==
    UNCHANGED <<aborted, rx, tx, seq, laps, last, snaplen, ready, kq,
                kqRetakes, armed, sock, outWritable, peer, opts, child>>

\* a call of setup that only succeeds or ends the process
Call(step, arg, ok) ==
    /\ pc = step
    /\ SetupUnchanged
    /\ UNCHANGED <<ring, mem, handler>>
    /\ IF ok THEN trace' = Append(trace, <<step, arg>>)
       ELSE Err(handler) /\ UNCHANGED <<G, ix, evt>>

\* if (load_kmod != 0) { kld_ensure_load("ng_socket"); kld_ensure_load("ng_pcap"); }
kld_ensure_load(ok) ==
    /\ pc \in {"kld_ng_socket", "kld_ng_pcap"}
    /\ IF opts.load_kmod
       THEN /\ Call(pc, 0, ok)
            /\ ok => (pc' = After(pc) /\ UNCHANGED <<G, ix, evt>>)
       ELSE /\ pc' = After(pc)
            /\ SetupUnchanged
            /\ UNCHANGED <<ring, mem, handler, trace, G, ix, evt>>

\* if (jail != NULL) { jail_getid, jail_attach }
jail_attach(ok) ==
    /\ pc = "jail_attach"
    /\ IF opts.jail
       THEN /\ Call(pc, 0, ok)
            /\ ok => (pc' = After(pc) /\ UNCHANGED <<G, ix, evt>>)
       ELSE /\ pc' = After(pc)
            /\ SetupUnchanged
            /\ UNCHANGED <<ring, mem, handler, trace, G, ix, evt>>

\* ring32_init(&G.buffer, calc_lgpages(snaplen * 3)), and on success
\* err_set_exit(err_cleanup)
RingInit(ok) ==
    /\ pc = "ring32_init"
    /\ SetupUnchanged
    /\ UNCHANGED <<ix, evt>>
    /\ handler' = (handler \/ InstallsHandler(pc, ok))
    /\ IF ok
       THEN /\ ring' = ring32_init(calc_lgpages(snaplen * 3))
            /\ mem' = [c \in 0..(ring'.capacity - 1) |-> 0]
            /\ G' = [G EXCEPT !.buffer = TRUE]
            /\ trace' = Append(trace, <<pc, 0>>)
            /\ pc' = After(pc)
       ELSE /\ Err(handler')
            /\ UNCHANGED <<ring, mem, G>>

\* ng_create_context(&G.ctrl, &G.data)
CreateContext(ok) ==
    /\ Call("ng_create_context", 0, ok)
    /\ ok => /\ G' = [G EXCEPT !.ctrl = 3, !.data = 4]
             /\ pc' = After(pc)
             /\ UNCHANGED <<ix, evt>>

\* G.pcap = ngp_connect_src(G.ctrl, G.pcap, ix, node, hook): the node is
\* made by the first call
ConnectSrc(ok) ==
    /\ Call("ngp_connect_src", ix, ok)
    /\ ok => /\ G' = [G EXCEPT !.pcap = 1]
             /\ pc' = "ngp_set_type"
             /\ UNCHANGED <<ix, evt>>

\* ngp_set_type(G.ctrl, G.pcap, ix, pkt), and the for loop's ix++
SetType(ok) ==
    /\ Call("ngp_set_type", ix, ok)
    /\ ok => /\ ix' = ix + 1
             /\ pc' = IF ix + 1 < opts.argc THEN "ngp_connect_src" ELSE After(pc)
             /\ UNCHANGED <<G, evt>>

\* ngp_set_snaplen, ngp_connect_snp, set_nonblocking(G.data),
\* set_nonblocking(STDOUT_FILENO)
Configure(ok) ==
    /\ pc \in {"ngp_set_snaplen", "ngp_connect_snp", "set_nonblocking_data",
               "set_nonblocking_stdout"}
    /\ Call(pc, 0, ok)
    /\ ok => (pc' = After(pc) /\ UNCHANGED <<G, ix, evt>>)

\* G.kq = kqueue(), and the two EV_SET
Kqueue(ok) ==
    /\ Call("kqueue", 0, ok)
    /\ ok => /\ G' = [G EXCEPT !.kq = 5]
             /\ evt' = RegisterFlags
             /\ pc' = After(pc)
             /\ UNCHANGED ix

\* kevent returns -1 with another errno than EINTR, at the registration or
\* in the loop: err
KeventFails ==
    /\ pc \in {"register", "wait"}
    /\ Err(handler)
    /\ SetupUnchanged
    /\ UNCHANGED <<ring, mem, handler, G, ix, evt>>

SetupCalls ==
    \/ \E ok \in BOOLEAN : kld_ensure_load(ok)
    \/ \E ok \in BOOLEAN : jail_attach(ok)
    \/ \E ok \in BOOLEAN : RingInit(ok)
    \/ \E ok \in BOOLEAN : CreateContext(ok)
    \/ \E ok \in BOOLEAN : ConnectSrc(ok)
    \/ \E ok \in BOOLEAN : SetType(ok)
    \/ \E ok \in BOOLEAN : Configure(ok)
    \/ \E ok \in BOOLEAN : Kqueue(ok)

\* the readiness loop while the capture node has sent at most MaxSock bytes
LoopStart == Next /\ Len(rx') + Len(sock') <= MaxSock

NextSetup ==
    \/ SetupCalls
    \/ KeventFails
    \/ LoopStart

\* the tap from the end of option parsing on, into the first bytes of its
\* readiness loop
SpecSetup == InitSetup /\ [][NextSetup]_vars

\* how often err_cleanup is run in SpecCleanup
MaxRuns == 2

\* err_cleanup called once more, by whatever calls it, with G as the
\* previous run left it
CleanupAgain ==
    /\ pc = "exit"
    /\ handler
    /\ Cardinality({i \in 1..Len(trace) : trace[i][1] = "ring32_fini"}) \in 1..(MaxRuns - 1)
    /\ trace' = trace \o Calls(err_cleanup(G))
    /\ SetupUnchanged
    /\ UNCHANGED <<ring, mem, handler, G, ix, evt, pc>>

NextCleanup ==
    \/ SetupCalls
    \/ KeventFails
    \/ CleanupAgain

\* main's setup, any fatal error in it, and err_cleanup run up to MaxRuns times
SpecCleanup == InitSetup /\ [][NextCleanup]_vars

----------------------------------------------------------------------------
(* ngportal main.c: the parent, and the helper child of jail_name_connect *)

\* static struct { ... } G = { .fd = -1, .wh = { 0, 0 } }
PortalG == [fd |-> -1, wh |-> <<0, 0>>]

\* faulty variant: the second wormhole is shut down before the first
portal_err_cleanup_second_first(g) ==
    IF g.fd = -1 THEN <<<<"assert", 0>>>>
    ELSE (IF g.wh[2] # 0 THEN <<<<"NGM_SHUTDOWN", g.wh[2]>>>> ELSE <<>>)
         \o (IF g.wh[1] # 0 THEN <<<<"NGM_SHUTDOWN", g.wh[1]>>>> ELSE <<>>)
         \o <<<<"close", g.fd>>>>

\* ngportal's err_cleanup: the calls it makes for the G it finds;
\* assert(G.fd != -1) comes first
portal_err_cleanup(g) ==
    IF g.fd = -1 THEN <<<<"assert", 0>>>>
    ELSE (IF g.wh[1] # 0 THEN <<<<"NGM_SHUTDOWN", g.wh[1]>>>> ELSE <<>>)
         \o (IF g.wh[2] # 0 THEN <<<<"NGM_SHUTDOWN", g.wh[2]>>>> ELSE <<>>)
         \o <<<<"close", g.fd>>>>

\* the calls of the child, marked as the child's
ByChild(calls) == [i \in 1..Len(calls) |-> <<"c:" \o calls[i][1], calls[i][2]>>]

\* faulty variant: any child that was waited for counts as a success
ChildOk_any(status) == TRUE

\* !(!WIFEXITED(status) || WEXITSTATUS(status) != 0); status 0 is exit(0),
\* 1 another exit status, 2 the end by a signal
ChildOk(status) == status = 0

\* faulty variant: the child keeps the wormhole ids it inherited
ChildWh_kept(wh) == wh

\* G.wh[0] = G.wh[1] = 0 in the child
ChildWh(wh) == <<0, 0>>

\* NG_WORMHOLE_HOOK, the name of a wormhole's own hook (ng_wormhole.h), in
\* the characters of the model
NG_WORMHOLE_HOOK == <<"a", "a">>

\* a char * that is NULL (a string is the sequence of its characters)
NullStr == <<"NULL">>

\* the hook of a parsed spec: none, the name of a wormhole's hook, another
Hooks == {NullStr, NG_WORMHOLE_HOOK, <<"a">>}

\* sysexits.h
EX_DATAERR == 65
EX_OSERR == 71
EX_NOPERM == 77

\* errno.h
ENOENT == 2
EINVAL == 22
EDOOFUS == 88

\* what NgSendMsg of NGM_CONNECT leaves in errno when it fails
ConnectErrnos == {ENOENT, EINVAL, EDOOFUS}

\* ERREXIT and ERRALT(EX_OSERR): the exit code, errno being EPERM or not
ERREXIT == {EX_NOPERM, EX_OSERR}

\* faulty variant: every failed connect is reported as far side not opened
Classify_not_opened(peerhook, errno) == "not opened"

\* wh_connect after NgSendMsg returned -1: which err(3) message is printed
Classify(peerhook, errno) ==
    IF peerhook # NG_WORMHOLE_HOOK THEN "unable to connect"
    ELSE IF errno = EINVAL THEN "not opened"
    ELSE IF errno = EDOOFUS THEN "same vnet"
    ELSE "unable to connect"

\* the options and specs main has parsed: -n, -j, one or two jails, and per
\* spec whether it has a name, whether it has a node, and its hook
InitPortal ==
    /\ opts \in [load_kmod : BOOLEAN, attached : BOOLEAN, two : BOOLEAN,
                 name : [1..2 -> BOOLEAN], node : [1..2 -> BOOLEAN],
                 hook : [1..2 -> Hooks]]
    /\ ring = [capacity |-> 0, mask |-> 0, start |-> 0, end |-> 0]
    /\ mem = <<>>
    /\ aborted = "none"
    /\ rx = <<>>
    /\ tx = <<>>
    /\ seq = 0
    /\ laps = 0
    /\ last = NoCall
    /\ snaplen = 0
    /\ pc = "kld"
    /\ ix = 0
    /\ ready = <<>>
    /\ evt = <<{}, {}>>
    /\ kq = <<NoEntry, NoEntry>>
    /\ kqRetakes = FALSE
    /\ armed = <<FALSE, FALSE>>
    /\ sock = <<>>
    /\ outWritable = FALSE
    /\ peer = PeerOpen
    /\ G = PortalG
    /\ handler = FALSE
    /\ child = NoChild
    /\ trace = <<>>

PortalUnchanged ==
    UNCHANGED <<ring, mem, aborted, rx, tx, seq, laps, last, snaplen, ready,
                evt, kq, kqRetakes, armed, sock, outWritable, peer, opts>>

\* err(3) in the parent after the calls in said: the handler, if set, then
\* exit with code
Fatal(said, code) ==
    /\ pc' = "exit"
    /\ trace' = trace \o said \o <<<<"err", code>>>>
                      \o (IF handler THEN portal_err_cleanup(G) ELSE <<>>)
    /\ UNCHANGED <<G, handler, ix, child>>

\* err(ERREXIT, ...) in the parent
PortalErr == \E code \in ERREXIT : Fatal(<<>>, code)

\* assert(peerhook != NULL) of wh_connect fails in the parent
PortalAbort(said) ==
    /\ pc' = "exit"
    /\ trace' = trace \o said \o <<<<"assert_peerhook", 0>>>>
    /\ UNCHANGED <<G, handler, ix, child>>

\* a failed NGM_CONNECT: the call, errno, the message err(3) prints
FailedConnect(call, peerhook, errno) ==
    <<call, <<"errno", errno>>, <<"stderr", Classify(peerhook, errno)>>>>

\* what main does after jail_name_connect for whs[i]
AfterHelper(i) ==
    IF i = 1 THEN "collapse"
    ELSE IF opts.two THEN "wh_create"
    ELSE "wh_name"

\* if (load_kmod && !attached) { kld_ensure_load x 2 }
PortalKld(ok) ==
    /\ pc = "kld"
    /\ PortalUnchanged
    /\ IF opts.load_kmod /\ ~opts.attached
       THEN IF ok THEN /\ trace' = Append(trace, <<"kld_ensure_load", 0>>)
                       /\ pc' = "ng_create_context"
                       /\ UNCHANGED <<G, handler, ix, child>>
            ELSE PortalErr
       ELSE /\ pc' = "ng_create_context"
            /\ UNCHANGED <<G, handler, ix, child, trace>>

\* ng_create_context(&G.fd, NULL); err_set_exit(err_cleanup);
PortalContext(ok) ==
    /\ pc = "ng_create_context"
    /\ PortalUnchanged
    /\ IF ok THEN /\ G' = [G EXCEPT !.fd = 1]
                  /\ handler' = TRUE
                  /\ trace' = Append(trace, <<"ng_create_context", 1>>)
                  /\ pc' = "wh_create"
                  /\ UNCHANGED <<ix, child>>
       ELSE PortalErr

\* G.wh[ix] = wh_create(G.fd)
PortalCreate(ok) ==
    /\ pc = "wh_create"
    /\ PortalUnchanged
    /\ IF ok THEN /\ G' = [G EXCEPT !.wh[ix + 1] = ix + 1]
                  /\ trace' = Append(trace, <<"wh_create", ix>>)
                  /\ pc' = "wh_open"
                  /\ UNCHANGED <<handler, ix, child>>
       ELSE PortalErr

\* farside = wh_open(G.fd, G.wh[ix], ws->jail)
PortalOpen(ok) ==
    /\ pc = "wh_open"
    /\ PortalUnchanged
    /\ IF ok THEN /\ child' = [NoChild EXCEPT !.farside = 10 + G.wh[ix + 1]]
                  /\ trace' = Append(trace, <<"wh_open", ix>>)
                  /\ pc' = "jail_name_connect"
                  /\ UNCHANGED <<G, handler, ix>>
       ELSE PortalErr

\* jail_name_connect up to fork(): nothing to do, or the child is made with
\* a copy of G
PortalFork(ok) ==
    /\ pc = "jail_name_connect"
    /\ PortalUnchanged
    /\ IF ~opts.name[ix + 1] /\ ~opts.node[ix + 1]
       THEN /\ pc' = AfterHelper(ix)
            /\ ix' = IF pc' = "wh_create" THEN 1 ELSE ix
            /\ UNCHANGED <<G, handler, child, trace>>
       ELSE IF ok
       THEN /\ child' = [pc |-> "close", fd |-> G.fd, wh |-> G.wh,
                         farside |-> child.farside, of |-> ix]
            /\ trace' = Append(trace, <<"fork", ix>>)
            /\ pc' = "wait"
            /\ UNCHANGED <<G, handler, ix>>
       ELSE PortalErr

\* how the child ended, as wait(2) reports it
Status == CASE child.pc = "exited0" -> 0
            [] child.pc = "exited1" -> 1
            [] OTHER -> 2

\* jail_name_connect, parent branch: wait(&status) and the test of status
PortalWait(ok) ==
    /\ pc = "wait"
    /\ child.pc \in {"exited0", "exited1", "aborted"}
    /\ PortalUnchanged
    /\ IF ok /\ ChildOk(Status)
       THEN /\ trace' = Append(trace, <<"wait", Status>>)
            /\ pc' = AfterHelper(ix)
            /\ ix' = IF pc' = "wh_create" THEN 1 ELSE ix
            /\ child' = NoChild
            /\ UNCHANGED <<G, handler>>
       ELSE Fatal(<<>>, EX_OSERR)

\* wh_connect(G.fd, G.wh[0], "[wh1]", NG_WORMHOLE_HOOK); errno 0 stands
\* for NgSendMsg not failing
PortalCollapse(errno) ==
    /\ pc = "collapse"
    /\ PortalUnchanged
    /\ IF errno = 0
       THEN /\ trace' = Append(trace, <<"collapse", G.wh[2]>>)
            /\ pc' = "done"
            /\ UNCHANGED <<G, handler, ix, child>>
       ELSE Fatal(FailedConnect(<<"collapse", G.wh[2]>>, NG_WORMHOLE_HOOK, errno),
                  EX_DATAERR)

\* one jail: wh_name(G.fd, G.wh[0], ws->name); wh_connect(G.fd, G.wh[0],
\* ws->node, ws->hook) in the current vnet
PortalLocal(errno) ==
    /\ pc \in {"wh_name", "wh_connect"}
    /\ PortalUnchanged
    /\ LET naming == pc = "wh_name"
           given == IF naming THEN opts.name[2] ELSE opts.node[2]
           next == IF naming THEN "wh_connect" ELSE "done"
       IN  IF ~given THEN /\ pc' = next
                          /\ UNCHANGED <<G, handler, ix, child, trace>>
           ELSE IF ~naming /\ opts.hook[2] = NullStr THEN PortalAbort(<<>>)
           ELSE IF errno = 0 THEN /\ trace' = Append(trace, <<pc, 0>>)
                                  /\ pc' = next
                                  /\ UNCHANGED <<G, handler, ix, child>>
           ELSE IF naming THEN PortalErr
           ELSE Fatal(FailedConnect(<<pc, 0>>, opts.hook[2], errno), EX_DATAERR)

\* err(3) in the child: the handler it inherited runs on the child's G.
\* Built with NDEBUG the assertion is not made and close(-1) just fails.
ChildErr(ndebug) ==
    LET calls == portal_err_cleanup([fd |-> child.fd, wh |-> child.wh])
        asserts == calls[1][1] = "assert"
    IN  /\ \E code \in ERREXIT :
              trace' = trace \o ByChild(<<<<"err", code>>>>)
                             \o ByChild(IF asserts /\ ndebug
                                        THEN <<<<"close", -1>>>> ELSE calls)
        /\ child' = [child EXCEPT !.pc = IF asserts /\ ~ndebug THEN "aborted"
                                         ELSE "exited1"]

\* child: (void) close(G.fd); G.fd = -1; G.wh[0] = G.wh[1] = 0;
ChildClose ==
    /\ child.pc = "close"
    /\ PortalUnchanged
    /\ trace' = Append(trace, <<"c:close", child.fd>>)
    /\ child' = [child EXCEPT !.pc = "jail_attach", !.fd = -1,
                              !.wh = ChildWh(child.wh)]
    /\ UNCHANGED <<G, handler, ix, pc>>

\* child: jail_attach(jid)
ChildAttach(ok, ndebug) ==
    /\ child.pc = "jail_attach"
    /\ PortalUnchanged
    /\ UNCHANGED <<G, handler, ix, pc>>
    /\ IF ok THEN /\ trace' = Append(trace, <<"c:jail_attach", child.of>>)
                  /\ child' = [child EXCEPT !.pc = "ng_create_context"]
       ELSE ChildErr(ndebug)

\* child: ng_create_context(&G.fd, NULL)
ChildContext(ok, ndebug) ==
    /\ child.pc = "ng_create_context"
    /\ PortalUnchanged
    /\ UNCHANGED <<G, handler, ix, pc>>
    /\ IF ok THEN /\ trace' = Append(trace, <<"c:ng_create_context", 2 + child.of>>)
                  /\ child' = [child EXCEPT !.pc = "wh_name", !.fd = 2 + child.of]
       ELSE ChildErr(ndebug)

\* child: wh_name(G.fd, wh, name), then wh_connect(G.fd, wh, node, hook);
\* each sends one message unless its argument is NULL; wh_connect asserts
\* peerhook != NULL before it sends; errno 0 stands for NgSendMsg not failing
ChildSend(errno) ==
    /\ child.pc \in {"wh_name", "wh_connect"}
    /\ PortalUnchanged
    /\ UNCHANGED <<G, handler, ix, pc>>
    /\ LET naming == child.pc = "wh_name"
           given == IF naming THEN opts.name[child.of + 1]
                              ELSE opts.node[child.of + 1]
           peerhook == opts.hook[child.of + 1]
           msg == <<IF naming THEN "c:NGM_NAME" ELSE "c:NGM_CONNECT", child.fd>>
           next == IF naming THEN "wh_connect" ELSE "closing"
           calls == portal_err_cleanup([fd |-> child.fd, wh |-> child.wh])
       IN  IF ~given THEN /\ child' = [child EXCEPT !.pc = next]
                          /\ UNCHANGED trace
           ELSE IF ~naming /\ peerhook = NullStr
           THEN /\ trace' = Append(trace, <<"c:assert_peerhook", 0>>)
                /\ child' = [child EXCEPT !.pc = "aborted"]
           ELSE IF errno = 0 THEN /\ trace' = Append(trace, msg)
                                  /\ child' = [child EXCEPT !.pc = next]
           ELSE /\ child' = [child EXCEPT !.pc = "exited1"]
                /\ IF naming
                   THEN \E code \in ERREXIT :
                           trace' = trace \o <<msg>>
                                          \o ByChild(<<<<"err", code>>>> \o calls)
                   ELSE trace' = trace \o <<msg>>
                           \o ByChild(SubSeq(FailedConnect(msg, peerhook, errno), 2, 3)
                                      \o <<<<"err", EX_DATAERR>>>> \o calls)

\* child: (void) close(G.fd); exit(0);
ChildExit ==
    /\ child.pc = "closing"
    /\ PortalUnchanged
    /\ trace' = Append(trace, <<"c:close", child.fd>>)
    /\ child' = [child EXCEPT !.pc = "exited0"]
    /\ UNCHANGED <<G, handler, ix, pc>>

NextPortal ==
    \/ \E ok \in BOOLEAN : PortalKld(ok)
    \/ \E ok \in BOOLEAN : PortalContext(ok)
    \/ \E ok \in BOOLEAN : PortalCreate(ok)
    \/ \E ok \in BOOLEAN : PortalOpen(ok)
    \/ \E ok \in BOOLEAN : PortalFork(ok)
    \/ \E ok \in BOOLEAN : PortalWait(ok)
    \/ \E errno \in {0} \cup ConnectErrnos : PortalCollapse(errno)
    \/ \E errno \in {0} \cup ConnectErrnos : PortalLocal(errno)
    \/ ChildClose
    \/ \E ok \in BOOLEAN : \E ndebug \in BOOLEAN : ChildAttach(ok, ndebug)
    \/ \E ok \in BOOLEAN : \E ndebug \in BOOLEAN : ChildContext(ok, ndebug)
    \/ \E errno \in {0} \cup ConnectErrnos : ChildSend(errno)
    \/ ChildExit

\* ngportal from the end of its argument checks on
SpecPortal == InitPortal /\ [][NextPortal]_vars

----------------------------------------------------------------------------
(* ngportal main.c: the specs of the command line, parse_spec and the checks *)
(* of the jails; then the portal as above                                    *)

\* the characters of a spec: the separator, and one other
Chars == {":", "a"}

\* the strings of at most n characters
Strings(n) == UNION {[1..k -> Chars] : k \in 0..n}

\* argv after the options: no spec, one, two with MaxArgv characters in all,
\* or three (of which only the number is looked at)
Argvs ==
    {<<>>, <<<<>>, <<>>, <<>>>>}
    \cup {<<s>> : s \in Strings(MaxArgv)}
    \cup {a \in Strings(MaxArgv) \X Strings(MaxArgv) :
            Len(a[1]) + Len(a[2]) <= MaxArgv}

\* a field of spec_storage that nothing has written: its value is
\* indeterminate
Indet == <<"?">>

\* a pointer that is not NULL and points to no string of the program's
Wild == <<"*">>

\* struct wh_spec spec_storage[2], declared without an initializer
Uninit == [jail |-> Indet, name |-> Indet, node |-> Indet, hook |-> Indet]

\* sysexits.h
EX_USAGE == 64
EX_NOHOST == 68

\* the index of the first ':' of s, 0 if it has none
FirstColon(s) ==
    IF \E i \in 1..Len(s) : s[i] = ":"
    THEN CHOOSE i \in 1..Len(s) : s[i] = ":" /\ \A j \in 1..(i - 1) : s[j] # ":"
    ELSE 0

\* for (iter = components; (*iter = strsep(&arg, ":")) != NULL;)
\*         if (++iter >= &components[4]) break;
\* the tokens taken so far are got; the result is components (the entries
\* after the last token are NULL) and what is left in arg
RECURSIVE Split(_, _)
Split(arg, got) ==
    IF arg = NullStr THEN [components |-> got, arg |-> NullStr]
    ELSE LET c == FirstColon(arg)
             token == IF c = 0 THEN arg ELSE SubSeq(arg, 1, c - 1)
             rest == IF c = 0 THEN NullStr ELSE SubSeq(arg, c + 1, Len(arg))
             taken == Append(got, token)
         IN  IF Len(taken) >= 4 THEN [components |-> taken, arg |-> rest]
             ELSE Split(rest, taken)

\* checkcomponent: rc, and what *set is afterwards
checkcomponent(parsed, max, set) ==
    IF parsed # NullStr
    THEN IF Len(parsed) > max THEN [rc |-> 1, set |-> set]
         ELSE [rc |-> 0, set |-> IF parsed = <<>> THEN NullStr ELSE parsed]
    ELSE [rc |-> 0, set |-> set]

\* "node,hook must both be set or both be unset": what the two tests on
\* components[2] and components[3] add to rc
NodeHookCheck(node, hook) ==
    (IF node # NullStr /\ hook = NullStr THEN 1 ELSE 0)
    + (IF node = NullStr /\ hook # NullStr THEN 1 ELSE 0)

\* parse_spec(arg, whs): what it returns, and *whs afterwards
parse_spec(arg, whs) ==
    LET sp == Split(arg, <<>>)
        components == [k \in 1..4 |-> IF k <= Len(sp.components)
                                      THEN sp.components[k] ELSE NullStr]
        jail == checkcomponent(components[1], MAXHOSTNAMELEN, whs.jail)
        name == checkcomponent(components[2], NG_NODELEN, whs.name)
        node == checkcomponent(components[3], NG_NODELEN, whs.node)
        hook == checkcomponent(components[4], NG_NODELEN, whs.hook)
        rc == (IF sp.arg # NullStr THEN 1 ELSE 0)
              + jail.rc + name.rc + node.rc + hook.rc
              + NodeHookCheck(components[3], components[4])
    IN  [rc |-> IF rc = 0 THEN 0 ELSE -1,
         whs |-> [jail |-> jail.set, name |-> name.set,
                  node |-> node.set, hook |-> hook.set]]

\* the values a read of a field may give: what was written, or for an
\* indeterminate field NULL or any pointer (for name, node and hook taken to
\* point to a string)
Reads(whs) ==
    LET of(v, any) == IF v = Indet THEN any ELSE {v}
    IN  [jail : of(whs.jail, {NullStr, Wild}),
         name : of(whs.name, {NullStr, <<"a">>}),
         node : of(whs.node, {NullStr, <<"a">>}),
         hook : of(whs.hook, Hooks)]

\* the jails of the system, by id
JailIds == {1, 2}

\* jail_getid does not return: the process is killed in it
NoReturn == -2

\* after getopt: the specs are in argv, nothing is parsed
InitArgs ==
    /\ opts \in [argv : Argvs, load_kmod : {TRUE}, attached : {FALSE},
                 whs : {<<Uninit, Uninit>>}]
    /\ ring = [capacity |-> 0, mask |-> 0, start |-> 0, end |-> 0]
    /\ mem = <<>>
    /\ aborted = "none"
    /\ rx = <<>>
    /\ tx = <<>>
    /\ seq = 0
    /\ laps = 0
    /\ last = NoCall
    /\ snaplen = 0
    /\ pc = "parse"
    /\ ix = 0
    /\ ready = <<>>
    /\ evt = <<{}, {}>>
    /\ kq = <<NoEntry, NoEntry>>
    /\ kqRetakes = FALSE
    /\ armed = <<FALSE, FALSE>>
    /\ sock = <<>>
    /\ outWritable = FALSE
    /\ peer = PeerOpen
    /\ G = PortalG
    /\ handler = FALSE
    /\ child = NoChild
    /\ trace = <<>>

ArgsUnchanged ==
    UNCHANGED <<ring, mem, aborted, rx, tx, seq, laps, last, snaplen, ready,
                evt, kq, kqRetakes, armed, sock, outWritable, peer, G, handler,
                ix, child>>

\* main stops before it has made any call on the graph
Stop(how, code) ==
    /\ pc' = "exit"
    /\ trace' = Append(trace, <<how, code>>)
    /\ UNCHANGED opts

\* Usage(...): exit(EX_USAGE)
Usage == Stop("Usage", EX_USAGE)

\* switch (argc) { ... } if (rc != 0) Usage("\n\n");
ParseArgs ==
    /\ pc = "parse"
    /\ ArgsUnchanged
    /\ LET argc == Len(opts.argv)
       IN  IF argc \notin {1, 2} THEN Usage
           ELSE LET second == IF argc = 2
                              THEN parse_spec(opts.argv[2], opts.whs[2])
                              ELSE [rc |-> 0, whs |-> opts.whs[2]]
                    first == parse_spec(opts.argv[1], opts.whs[1])
                IN  IF second.rc + first.rc # 0 THEN Usage
                    ELSE /\ pc' = "jails"
                         /\ opts' = [opts EXCEPT !.whs = <<first.whs, second.whs>>]
                         /\ UNCHANGED trace

\* from "if (whs[0]->jail == NULL && whs[1]->jail == NULL)" to "if (jids[0]
\* == jids[1])": the default-jail test, the swap, jail_getid for each jail
\* given, the test of the ids. found[i] is what jail_getid returns for
\* whs[i]->jail: -1, an id, or (for a wild pointer only) NoReturn
JailChecks ==
    /\ pc = "jails"
    /\ ArgsUnchanged
    /\ \E first \in Reads(opts.whs[1]) : \E second \in Reads(opts.whs[2]) :
         IF first.jail = NullStr /\ second.jail = NullStr THEN Usage
         ELSE LET whs == IF first.jail = NullStr THEN <<second, first>>
                         ELSE <<first, second>>
              IN  \E found \in [1..2 -> {-1, NoReturn} \cup JailIds] :
                    /\ \A i \in 1..2 : found[i] = NoReturn => whs[i].jail = Wild
                    /\ (whs[1].jail = whs[2].jail /\ whs[1].jail # Wild)
                          => found[1] = found[2]
                    /\ LET given == {i \in 1..2 : whs[i].jail # NullStr}
                           bad == {i \in given : found[i] \in {-1, NoReturn}}
                           jids == [i \in 1..2 |-> IF i \in given THEN found[i]
                                                   ELSE 0]
                       IN  IF bad # {}
                           THEN LET i == CHOOSE b \in bad : \A o \in bad : b <= o
                                IN  IF found[i] = -1
                                    THEN \E code \in {EX_NOPERM, EX_NOHOST} :
                                            Stop("errx", code)
                                    ELSE Stop("SIGSEGV", 0)
                           ELSE IF jids[1] = jids[2] THEN Usage
                           ELSE /\ pc' = "kld"
                                /\ UNCHANGED trace
                                /\ opts' =
                                     [argv |-> opts.argv,
                                      load_kmod |-> opts.load_kmod,
                                      attached |-> opts.attached,
                                      whs |-> whs,
                                      jids |-> jids,
                                      two |-> jids[2] # 0,
                                      name |-> [i \in 1..2 |-> whs[i].name # NullStr],
                                      node |-> [i \in 1..2 |-> whs[i].node # NullStr],
                                      hook |-> [i \in 1..2 |-> whs[i].hook]]

\* the portal with system calls that do not fail (SpecPortal has those that
\* do): err(3) is called only for a helper that was stopped by an assertion
PortalRun ==
    /\ NextPortal
    /\ \A i \in 1..Len(trace') :
          /\ trace'[i][1] # "c:err"
          /\ trace'[i][1] = "err" => child.pc = "aborted"

NextArgs ==
    \/ ParseArgs
    \/ JailChecks
    \/ PortalRun

\* ngportal from the end of its option loop on
SpecArgs == InitArgs /\ [][NextArgs]_vars

----------------------------------------------------------------------------
(* ngpcap main.c: option -s *)

\* NG_PACP_MIN_SNAPLEN and NG_PACP_MAX_SNAPLEN (ng_pcap.h), as the tap above
\* takes them
NG_PACP_MIN_SNAPLEN == 1
NG_PACP_MAX_SNAPLEN == MaxSnaplen

\* ULONG_MAX, unsigned long being twice as wide as int32_t (CounterBits)
ULONG_MAX == 2 ^ (2 * CounterBits) - 1

Digits == <<"0", "1", "2", "3", "4", "5", "6", "7", "8", "9">>

\* the value of a digit character, -1 for another character
DigitValue(c) ==
    IF \E d \in 1..10 : Digits[d] = c
    THEN (CHOOSE d \in 1..10 : Digits[d] = c) - 1
    ELSE -1

\* the characters of an optarg: the digits, the signs, and one other
OptChars == {Digits[d] : d \in 1..10} \cup {"-", "+", "x"}

Optargs == UNION {[1..k -> OptChars] : k \in 0..MaxDigits}

\* the number written by the digits s[from .. to]
RECURSIVE Decimal(_, _, _)
Decimal(s, from, to) ==
    IF to < from THEN 0
    ELSE 10 * Decimal(s, from, to - 1) + DigitValue(s[to])

\* strtoul(s, &ep, 10): an optional sign, then digits as far as they go; the
\* value is ULONG_MAX if the number does not fit, and is negated (modulo
\* ULONG_MAX + 1) after a '-'; without a digit nothing is converted and ep is
\* s. ep is given as the index of the character it points to.
strtoul(s) ==
    LET signed == Len(s) >= 1 /\ s[1] \in {"-", "+"}
        from == IF signed THEN 2 ELSE 1
        stop == IF \E i \in from..Len(s) : DigitValue(s[i]) = -1
                THEN CHOOSE i \in from..Len(s) :
                        /\ DigitValue(s[i]) = -1
                        /\ \A j \in from..(i - 1) : DigitValue(s[j]) # -1
                ELSE Len(s) + 1
        acc == Decimal(s, from, stop - 1)
    IN  IF stop = from THEN [value |-> 0, ep |-> 1]
        ELSE [value |-> IF acc > ULONG_MAX THEN ULONG_MAX
                        ELSE IF signed /\ s[1] = "-"
                        THEN (ULONG_MAX + 1 - acc) % (ULONG_MAX + 1)
                        ELSE acc,
              ep |-> stop]

\* the conversion of an unsigned long to int32_t: the low bits, two's
\* complement
ToInt32(u) ==
    LET low == u % Wrap
    IN  IF low >= Wrap \div 2 THEN low - Wrap ELSE low

\* main is at case 's' with this optarg; snaplen has its default
InitSnaplen ==
    /\ opts \in [optarg : Optargs]
    /\ snaplen = NG_PACP_MAX_SNAPLEN
    /\ pc = "getopt"
    /\ ring = [capacity |-> 0, mask |-> 0, start |-> 0, end |-> 0]
    /\ mem = <<>>
    /\ aborted = "none"
    /\ rx = <<>>
    /\ tx = <<>>
    /\ seq = 0
    /\ laps = 0
    /\ last = NoCall
    /\ ix = 0
    /\ ready = <<>>
    /\ evt = <<{}, {}>>
    /\ kq = <<NoEntry, NoEntry>>
    /\ kqRetakes = FALSE
    /\ armed = <<FALSE, FALSE>>
    /\ sock = <<>>
    /\ outWritable = FALSE
    /\ peer = PeerOpen
    /\ G = StaticG
    /\ handler = FALSE
    /\ child = NoChild
    /\ trace = <<>>

\* ngpcap's Usage(...) with the message in short: exit(EX_USAGE)
TapUsage(said) ==
    /\ pc' = "exit"
    /\ trace' = Append(trace, <<"Usage", said>>)
    /\ UNCHANGED snaplen

\* case 's': strtoul, the test of *ep, the two tests of maybe
OptSnaplen ==
    /\ pc = "getopt"
    /\ UNCHANGED <<ring, mem, aborted, rx, tx, seq, laps, last, ix, ready, evt,
                   kq, kqRetakes, armed, sock, outWritable, peer, G, handler,
                   opts, child>>
    /\ LET r == strtoul(opts.optarg)
           maybe == ToInt32(r.value)
       IN  IF r.ep <= Len(opts.optarg) THEN TapUsage("snaplen must be integer")
           ELSE IF maybe > NG_PACP_MAX_SNAPLEN THEN TapUsage("snaplen > max")
           ELSE IF maybe < NG_PACP_MIN_SNAPLEN THEN TapUsage("snaplen < min")
           ELSE /\ snaplen' = maybe
                /\ pc' = "parsed"
                /\ UNCHANGED trace

NextSnaplen == OptSnaplen

SpecSnaplen == InitSnaplen /\ [][NextSnaplen]_vars

\* the ring32 operations called directly on any well-formed ring, together
\* with ngpcap's loop calling them from its two callbacks
InitDiscipline == InitOps \/ InitTap

NextDiscipline == NextOps \/ Next

SpecDiscipline == InitDiscipline /\ [][NextDiscipline]_vars

----------------------------------------------------------------------------
(* Claims about the readiness loop, checked under Spec and FairSpec *)

InTap == pc \notin {"ring"}

\* bytes the capture node has sent so far
Arrived == Len(rx) + Len(sock)

\* C1: in every state of the readiness loop (end - start) mod 2^CounterBits
\* is at most capacity, and no assertion of ring32.h has failed.
C1_CountWithinCapacity ==
    InTap => (ring32_count(ring) <= ring.capacity /\ aborted = "none")

\* the ring is full after bytes have already left it
C1_Witness ==
    /\ InTap /\ aborted = "none"
    /\ ring32_full(ring)
    /\ Len(tx) > 0

\* C2: FIFO. The bytes written to standard output are a prefix of the bytes
\* read from the data socket.
C2_Fifo == InTap => IsPrefix(tx, rx)

\* more bytes than the ring holds have gone through, and the last write
\* took its bytes from across the end of the first mapping
C2_Witness ==
    /\ InTap
    /\ Len(tx) > ring.capacity
    /\ tx = rx
    /\ BitAnd(ring.start, ring.mask) # 0

\* C3: if standard output stays writable, the bytes the capture node sends
\* (finitely many, in any chunking) all reach standard output, in order: from
\* some point on the data socket is drained and standard output holds
\* exactly the bytes that were read.
C3_Delivered ==
    ([]outWritable) => <>[](sock = <<>> /\ tx = rx)

\* all MaxBytes bytes the capture node sent are on standard output, which
\* is writable, and the loop is blocked in kevent with nothing left to do
C3_Witness ==
    /\ pc = "wait"
    /\ outWritable
    /\ Arrived = MaxBytes
    /\ sock = <<>>
    /\ Len(tx) = MaxBytes

\* C4 as claimed: read_event runs only where free(ring) >= snaplen.
C4_ReadOnlyWithRoom ==
    (pc = "read_event") => (ring32_free(ring) >= snaplen)

\* C5 as claimed: at a blocking wait the WRITE entry is enabled only if the
\* ring is non-empty, and write_event never runs on an empty ring.
C5_WriteOnlyNonEmpty ==
    /\ (pc = "wait" /\ kq[WRITE].enabled) => ~ring32_empty(ring)
    /\ (pc = "write_event") => ~ring32_empty(ring)

\* C6 as claimed: an entry is enabled only by a change-list entry of the loop
\* issued since that side last ran (so not by its registration), and a
\* callback about to be invoked was enabled that way.
C6_DispatchOnce ==
    /\ \A side \in Sides : (kq[side].added /\ kq[side].enabled) => armed[side]
    /\ (pc = "dispatch" /\ ix < Len(ready)) => armed[ready[ix + 1]]

----------------------------------------------------------------------------
(* Claims about ring32.h, checked under SpecRing *)

\* the offsets of maps.data a buffer call hands out
Window(buf) == IF buf.ptr = NULL THEN {} ELSE buf.ptr..(buf.ptr + buf.nbytes - 1)

\* no advance was handed a negative value other than -1
OnlyIoResults == last.k >= -1

\* C7: round trip. On a ring that passes SANITY_CHECK, whatever was stored
\* through read_buffer/read_advance since the ring was last empty (at any
\* counter value) comes out through write_buffer/write_advance in order, and
\* once all of it has come out the ring is empty again; no assertion fails.
C7_RoundTrip ==
    (pc = "ring" /\ SANITY_CHECK(ring) /\ OnlyIoResults) =>
        /\ aborted = "none"
        /\ IsPrefix(tx, rx)
        /\ (ring32_empty(ring) <=> tx = rx)

\* a sequence as long as the capacity went in and came out, across the end
\* of the first mapping and across the wrap of the counter
C7_Witness ==
    /\ pc = "ring" /\ aborted = "none" /\ OnlyIoResults
    /\ ring.capacity > 1
    /\ Len(rx) = ring.capacity /\ tx = rx /\ ring32_empty(ring)
    /\ BitAnd(ring.start, ring.mask) # 0
    /\ ring.start < ring.capacity
    /\ laps >= 1

\* C8: contiguous windows. The producer window and the consumer window lie
\* inside the double mapping [0, 2*capacity), and modulo capacity they hit
\* every physical byte of the ring exactly once between them.
C8_Windows ==
    (pc = "ring" /\ SANITY_CHECK(ring) /\ OnlyIoResults) =>
        LET P == Window(ring32_read_buffer(ring))
            C == Window(ring32_write_buffer(ring))
        IN  /\ \A v \in P \cup C : InMapping(ring, v)
            /\ \A c \in 0..(ring.capacity - 1) :
                  Cardinality({v \in P : Phys(ring, v) = c})
                + Cardinality({v \in C : Phys(ring, v) = c}) = 1

\* both windows are non-empty, the producer's runs into the second mapping,
\* and the counter has wrapped
C8_Witness ==
    /\ pc = "ring" /\ aborted = "none" /\ OnlyIoResults
    /\ ring32_count(ring) > 0 /\ ring32_free(ring) > 0
    /\ \E v \in Window(ring32_read_buffer(ring)) : v >= ring.capacity
    /\ laps >= 1

\* C9 as claimed: counter wrap, for every ring including one of capacity 1:
\* no assertion fails and count(ring) is the number of buffered bytes.
C9_AnyCapacity ==
    (pc = "ring" /\ OnlyIoResults) =>
        /\ aborted = "none"
        /\ ring32_count(ring) <= ring.capacity
        /\ ring32_count(ring) = Len(rx) - Len(tx)

\* C9 as amended: the same for every ring of capacity >= 2; a ring of
\* capacity 1 has mask 0 and fails SANITY_CHECK in its first call.
C9_CounterWrap ==
    (pc = "ring" /\ ring.capacity >= 2 /\ OnlyIoResults) =>
        /\ aborted = "none"
        /\ ring32_count(ring) <= ring.capacity
        /\ ring32_count(ring) = Len(rx) - Len(tx)

\* the smallest ring that passes SANITY_CHECK, its counter wrapped MaxLaps
\* times, holding bytes while index.end is numerically below index.start
C9_Witness ==
    /\ pc = "ring" /\ aborted = "none" /\ OnlyIoResults
    /\ ring.capacity = 2
    /\ laps = MaxLaps
    /\ ring.end < ring.start
    /\ ring32_count(ring) > 0

\* C10 as claimed: an advance by any k < 0 leaves start, end and the ring
\* contents unchanged.
C10_AnyNegative ==
    [][(pc = "ring" /\ last'.k < 0) => (ring' = ring /\ mem' = mem)]_vars

\* C10 as amended: an advance by -1 on a ring that passes SANITY_CHECK
\* leaves start, end and the ring contents unchanged and fails no assertion.
C10_FailedIo ==
    [][(pc = "ring" /\ SANITY_CHECK(ring) /\ last'.k = -1)
          => (ring' = ring /\ mem' = mem /\ aborted' = "none")]_vars

\* an advance by -1 was made on a ring that holds bytes
C10_Witness ==
    /\ pc = "ring" /\ aborted = "none"
    /\ last.k = -1
    /\ ~ring32_empty(ring)

----------------------------------------------------------------------------
(* Claims about single ring32.h calls, checked under SpecOps *)

\* C11 as claimed: from any state that satisfies the invariants, every call
\* (an advance by any k with 0 <= k <= capacity included) fails no assertion
\* and leaves a state that satisfies the invariants.
C11_TotalAnyAccepted ==
    [][(pc = "ops" /\ RingInvariants(ring))
          => (aborted' = "none" /\ RingInvariants(ring'))]_vars

\* C11 as amended: the same where the mask is not 0, read_advance is handed
\* at most free(ring) and write_advance at most count(ring).
C11_Total ==
    [][(/\ pc = "ops" /\ RingInvariants(ring) /\ ring.mask # 0
        /\ (last'.op = "read_advance" => last'.k <= ring32_free(ring))
        /\ (last'.op = "write_advance" => last'.k <= ring32_count(ring)))
          => (aborted' = "none" /\ RingInvariants(ring') /\ ring'.mask # 0)]_vars

\* read_advance by the whole capacity has filled a ring across the wrap of
\* the counter
C11_Witness ==
    /\ pc = "ops" /\ aborted = "none"
    /\ last.op = "read_advance" /\ last.k = ring.capacity
    /\ ring.capacity > 1 /\ ring.mask # 0
    /\ ring32_full(ring)
    /\ ring.end < ring.start

----------------------------------------------------------------------------
(* Claims about the far ends going away, checked under SpecClose, and about *)
(* a stalled output, checked under Spec                                     *)

\* C12 as claimed: once read(2) on the data socket has returned 0 for end of
\* stream, the loop only drains the ring and then ends: read_event is not
\* invoked again and the process does not block in kevent on an empty ring.
C12_EofEndsLoop ==
    (peer.in = "seen") =>
        /\ pc # "read_event"
        /\ ~(pc = "wait" /\ ring32_empty(ring))

\* C13 as claimed: once write(2) on standard output has failed because the
\* reader closed, the process ends: it neither waits in kevent again nor
\* runs write_event again.
C13_EpipeEndsProcess ==
    (peer.out = "epipe") => pc \notin {"wait", "write_event"}

\* standard output is not writable and the read side has nothing to do
Stalled ==
    /\ ~outWritable
    /\ (ring32_free(ring) < snaplen \/ sock = <<>>)

\* C14 as claimed: while the output is stalled and the read side has nothing
\* to do, a process blocked in kevent stays blocked: no entry is returned,
\* so no callback is invoked and no read or write is issued.
C14_NoSpin ==
    (pc = "wait" /\ Stalled) => \A side \in Sides : ~Triggered(side)

----------------------------------------------------------------------------
(* Claims about the tap's setup and teardown, checked under SpecSetup and   *)
(* SpecCleanup                                                              *)

\* a call of one of these names is in trace
Has(names) == \E i \in 1..Len(trace) : trace[i][1] \in names

\* every call named in A that is in trace comes before every call named in B
Precedes(A, B) ==
    \A i, j \in 1..Len(trace) :
        (trace[i][1] \in A /\ trace[j][1] \in B) => i < j

\* the fatal error was raised at this call
Failed(step) == \E i \in 1..Len(trace) : trace[i] = <<"err", StepNo(step)>>

\* the calls made after err was called
Teardown ==
    IF Has({"err"})
    THEN LET e == CHOOSE i \in 1..Len(trace) : trace[i][1] = "err"
         IN  [j \in 1..(Len(trace) - e) |-> trace[e + j][1]]
    ELSE <<>>

HandlerRan == Has({"ring32_fini"})

\* source hook 0 connected, typed, source hook 1 connected, typed, ...
SourceCalls(n) ==
    [j \in 1..(2 * n) |->
        IF j % 2 = 1 THEN <<"ngp_connect_src", (j - 1) \div 2>>
                     ELSE <<"ngp_set_type", (j - 2) \div 2>>]

\* C15: construction order. Modules before the jail; the jail before the
\* ring and before any node; spec i connected to source hook i and then
\* typed, in command-line order; the snap length after all sources and
\* before the snoop hook; no read of the data socket before the snoop hook
\* is attached and both descriptors are non-blocking.
C15_ConstructionOrder ==
    LET sources == SelectSeq(trace,
                      LAMBDA c : c[1] \in {"ngp_connect_src", "ngp_set_type"})
    IN  /\ Precedes({"kld_ng_socket", "kld_ng_pcap"}, {"jail_attach"})
        /\ (opts.load_kmod /\ Has({"jail_attach", "ring32_init"}))
              => (Has({"kld_ng_socket"}) /\ Has({"kld_ng_pcap"}))
        /\ Precedes({"jail_attach"},
                    {"ring32_init", "ng_create_context", "ngp_connect_src"})
        /\ (opts.jail /\ Has({"ring32_init", "ng_create_context", "ngp_connect_src"}))
              => Has({"jail_attach"})
        /\ IsPrefix(sources, SourceCalls(opts.argc))
        /\ Has({"ngp_set_snaplen"}) => sources = SourceCalls(opts.argc)
        /\ Precedes({"ngp_connect_src", "ngp_set_type"}, {"ngp_set_snaplen"})
        /\ Precedes({"ngp_set_snaplen"}, {"ngp_connect_snp"})
        /\ Has({"ngp_connect_snp"}) => Has({"ngp_set_snaplen"})
        /\ (pc = "read_event") =>
              /\ Has({"ngp_connect_snp"})
              /\ Has({"set_nonblocking_data"})
              /\ Has({"set_nonblocking_stdout"})

\* a tap with modules to load, a jail and MaxSpecs specs is about to read
\* the data socket, which holds bytes
C15_Witness ==
    /\ pc = "read_event"
    /\ opts.load_kmod /\ opts.jail /\ opts.argc = MaxSpecs
    /\ Has({"jail_attach"})
    /\ sock # <<>>

\* C16 as claimed: a fatal error raised before or during the creation of the
\* control context does not run the cleanup handler.
C16_HandlerAfterContext ==
    (Has({"err"}) /\ G.ctrl = -1) => ~HandlerRan

\* C16 as amended: the handler is set once ring32_init has succeeded: a fatal
\* error raised before or during ring32_init does not run it, and one raised
\* by ng_create_context runs it with G.ctrl = -1, where it only frees the
\* ring.
C16_HandlerAfterRing ==
    /\ handler => G.buffer
    /\ (Has({"err"}) /\ ~G.buffer) => ~HandlerRan
    /\ Failed("ng_create_context") => Teardown = <<"ring32_fini">>

\* ring32_init failed and the process is gone, in a run that had entered a
\* jail
C16_Witness ==
    /\ pc = "exit"
    /\ Failed("ring32_init")
    /\ Has({"jail_attach"})

\* the place of a call in the order of teardown
Rank(call) ==
    CASE call = "ring32_fini" -> 1
      [] call = "close_kq" -> 2
      [] call = "ng_shutdown_node" -> 3
      [] call = "close_ctrl" -> 4
      [] call = "close_data" -> 5
      [] OTHER -> 0

InTeardown(call) == \E i \in 1..Len(Teardown) : Teardown[i] = call

\* the teardown calls are in order, each at most once
TeardownInOrder ==
    \A i, j \in 1..Len(Teardown) :
        i < j => (0 < Rank(Teardown[i]) /\ Rank(Teardown[i]) < Rank(Teardown[j]))

\* C17 as claimed: the handler frees the ring, closes the kqueue if open,
\* shuts the node down if its id is known, and closes both sockets, in
\* this order, on any fatal error after it is set.
C17_TeardownClosesSockets ==
    (Has({"err"}) /\ handler) =>
        /\ TeardownInOrder
        /\ InTeardown("ring32_fini")
        /\ InTeardown("close_kq") <=> G.kq # -1
        /\ InTeardown("ng_shutdown_node") <=> G.pcap # 0
        /\ InTeardown("close_ctrl")
        /\ InTeardown("close_data")

\* C17 as amended: the same, the sockets being closed (and the node shut
\* down) only where the control context exists.
C17_TeardownOrder ==
    (Has({"err"}) /\ handler) =>
        /\ TeardownInOrder
        /\ InTeardown("ring32_fini")
        /\ InTeardown("close_kq") <=> G.kq # -1
        /\ InTeardown("ng_shutdown_node") <=> (G.ctrl # -1 /\ G.pcap # 0)
        /\ InTeardown("close_ctrl") <=> G.ctrl # -1
        /\ InTeardown("close_data") <=> G.data # -1

\* kevent failed in the loop, after bytes went through: everything is
\* released
C17_Witness ==
    /\ pc = "exit"
    /\ Failed("register")
    /\ Len(tx) > 0
    /\ Len(Teardown) = 5

ReleaseCalls == {"ring32_fini", "close_kq", "ng_shutdown_node", "close_ctrl", "close_data"}

\* C18 as claimed: however often the handler runs, it releases only what
\* was acquired and releases nothing twice.
C18_Idempotent ==
    /\ Has({"close_kq"}) => Has({"kqueue"})
    /\ Has({"ng_shutdown_node"}) => Has({"ngp_connect_src"})
    /\ Has({"close_ctrl", "close_data"}) => Has({"ng_create_context"})
    /\ Has({"ring32_fini"}) => Has({"ring32_init"})
    /\ \A i, j \in 1..Len(trace) :
          (i < j /\ trace[i][1] \in ReleaseCalls) => trace[i][1] # trace[j][1]

----------------------------------------------------------------------------
(* Claims about ngportal, checked under SpecPortal *)

\* the parent's calls on its wormholes, and the helpers it has waited for
ParentOps ==
    SelectSeq(trace, LAMBDA c : c[1] \in {"wh_create", "wh_open", "wait", "collapse"})

\* create, open, helper finished with status 0, for wormhole i
WormholeCalls(i, helper) ==
    <<<<"wh_create", i>>, <<"wh_open", i>>>>
    \o (IF helper THEN <<<<"wait", 0>>>> ELSE <<>>)

\* jail_name_connect forks a helper for spec i
HasHelper(i) == opts.name[i] \/ opts.node[i]

\* C19 as claimed: with two jails the parent creates A, opens A, has helper A
\* finish with status 0, creates B, opens B, has helper B finish with status
\* 0, and then connects A to B once; never in another order.
C19_CollapseAfterBothHelpers ==
    opts.two =>
        LET all == WormholeCalls(0, TRUE) \o WormholeCalls(1, TRUE)
                   \o <<<<"collapse", 2>>>>
        IN  /\ IsPrefix(ParentOps, all)
            /\ (pc = "done") => ParentOps = all

\* C19 as amended: the same, a helper being part of the order only for a
\* spec that has a name or a node:hook (for another spec none is forked).
C19_CollapseOrder ==
    opts.two =>
        LET all == WormholeCalls(0, HasHelper(1)) \o WormholeCalls(1, HasHelper(2))
                   \o <<<<"collapse", 2>>>>
        IN  /\ IsPrefix(ParentOps, all)
            /\ (pc = "done") => ParentOps = all
            /\ Has({"collapse"}) => child.pc = "none"

\* two wormholes were collapsed after two helpers each did their work
C19_Witness ==
    /\ pc = "done" /\ opts.two
    /\ HasHelper(1) /\ HasHelper(2)
    /\ Has({"collapse"})
    /\ Has({"c:NGM_NAME"}) /\ Has({"c:NGM_CONNECT"})

\* C20: the child sends no shutdown for any wormhole, on no path, and each
\* message it sends goes over a control context that this child (the one of
\* the latest fork) created after it attached to its jail, never over the
\* parent's.
C20_ChildOwnContext ==
    /\ ~Has({"c:NGM_SHUTDOWN"})
    /\ \A p \in 1..Len(trace) :
          trace[p][1] \in {"c:NGM_NAME", "c:NGM_CONNECT"} =>
             /\ trace[p][2] # 1
             /\ \E q \in 1..(p - 1) : \E r \in 1..(q - 1) :
                   /\ trace[q] = <<"c:ng_create_context", trace[p][2]>>
                   /\ trace[r][1] = "c:jail_attach"
                   /\ \A f \in r..p : trace[f][1] # "fork"

\* the second helper sent its name over its own context and then failed to
\* connect: its error path has run
C20_Witness ==
    /\ child.pc = "exited1" /\ child.of = 1
    /\ Has({"c:NGM_NAME"}) /\ Has({"c:err"})
    /\ trace[Len(trace)] = <<"c:close", 3>>


\* the calls of the parent in trace (the child's are marked "c:")
ParentCalls ==
    SelectSeq(trace, LAMBDA c : c[1] \in {"kld_ensure_load", "ng_create_context",
        "wh_create", "wh_open", "fork", "wait", "collapse", "wh_name",
        "wh_connect", "err", "assert", "assert_peerhook", "NGM_SHUTDOWN",
        "close"})

\* the parent's calls from its err(3) on
ParentTeardown ==
    LET e == CHOOSE i \in 1..Len(ParentCalls) : ParentCalls[i][1] = "err"
    IN  SubSeq(ParentCalls, e, Len(ParentCalls))

\* a shutdown for each wormhole created, in the order of creation
ShutdownsOfCreated ==
    LET made == SelectSeq(trace, LAMBDA c : c[1] = "wh_create")
    IN  [i \in 1..Len(made) |-> <<"NGM_SHUTDOWN", made[i][2] + 1>>]

\* the helper ended otherwise than by exit(0)
ChildFailed == child.pc \in {"exited1", "aborted"}

\* C21: the parent makes no call between the fork of a helper and the wait for
\* it; once a helper has ended with a non-zero status or abnormally the parent
\* is stopped by a fatal error, and what it does from the error on is: a
\* shutdown for each wormhole it has created, the first before the second,
\* then the close of its control context, and nothing else (no create, open
\* or connect).
C21_ChildFailureStops ==
    /\ \A i \in 1..Len(ParentCalls) :
          (ParentCalls[i][1] = "fork" /\ i < Len(ParentCalls)) =>
              ParentCalls[i + 1][1] \in {"wait", "err"}
    /\ (child.pc \notin {"none", "exited0", "exited1", "aborted"}) => pc = "wait"
    /\ (ChildFailed /\ pc # "wait") =>
          /\ pc = "exit"
          /\ ParentTeardown = <<<<"err", EX_OSERR>>>> \o ShutdownsOfCreated
                                \o <<<<"close", 1>>>>
          /\ ParentCalls[Len(ParentCalls) - Len(ParentTeardown)][1] = "fork"

\* the second helper failed in its jail, and the parent has shut down both
\* wormholes and closed its context
C21_Witness ==
    /\ pc = "exit" /\ ChildFailed /\ child.of = 1
    /\ Has({"c:err"})
    /\ Len(ShutdownsOfCreated) = 2
    /\ trace[Len(trace)] = <<"close", 1>>


----------------------------------------------------------------------------
(* Claims about ngportal's command line, checked under SpecArgs *)

\* the spec has a jail component that is not empty
JailGiven(arg) == arg # <<>> /\ arg[1] # ":"

\* main is past its checks of the specs and of the jails
Checked == pc \notin {"parse", "jails"}

\* C22: with one or two specs of which none has a jail component, the run
\* ends with a usage error and nothing else has been done; and a control
\* context or a wormhole is created only for two jail ids that differ.
C22_DistinctJails ==
    /\ (/\ Checked
        /\ Len(opts.argv) \in {1, 2}
        /\ \A i \in 1..Len(opts.argv) : ~JailGiven(opts.argv[i]))
          => trace = <<<<"Usage", EX_USAGE>>>>
    /\ Has({"ng_create_context", "wh_create"}) => opts.jids[1] # opts.jids[2]


\* C23: whenever parse_spec has accepted the specs, each has a node and a
\* hook or neither; and wh_connect's assert(peerhook != NULL) never fails,
\* in the parent or in a helper.
C23_NodeWithHook ==
    /\ pc = "jails" =>
          \A i \in 1..Len(opts.argv) :
              (opts.whs[i].node = NullStr) <=> (opts.whs[i].hook = NullStr)
    /\ ~Has({"assert_peerhook", "c:assert_peerhook"})


----------------------------------------------------------------------------
(* Claims about the portal's failures, checked under SpecPortal *)

\* the places in trace where a failed connect is reported
Reports == {p \in 3..Len(trace) : trace[p][1] \in {"stderr", "c:stderr"}}

\* the message for errno on a connect to a wormhole's hook
ByErrno(errno) ==
    CASE errno = EINVAL -> "not opened"
      [] errno = EDOOFUS -> "same vnet"
      [] OTHER -> "unable to connect"

\* the peer hook of the connect reported at p: the collapse names the hook
\* of a wormhole, the other connects the hook of the spec
PeerHookAt(p) ==
    CASE trace[p - 2][1] = "collapse" -> NG_WORMHOLE_HOOK
      [] trace[p - 2][1] = "wh_connect" -> opts.hook[2]
      [] OTHER -> opts.hook[child.of + 1]

\* the report at p is followed by err(EX_DATAERR, ...) in the same process
ExitsDataErr(p) ==
    /\ p < Len(trace)
    /\ trace[p + 1] = <<IF trace[p][1] = "stderr" THEN "err" ELSE "c:err",
                        EX_DATAERR>>

\* C24 as claimed: a failed collapse connect is reported by its errno, every
\* other failed connect with the generic message, and each ends its process
\* with exit code 65.
C24_OnlyCollapseClassified ==
    \A p \in Reports :
        /\ trace[p][2] = IF trace[p - 2][1] = "collapse"
                         THEN ByErrno(trace[p - 1][2])
                         ELSE "unable to connect"
        /\ ExitsDataErr(p)

\* C24 as amended: a failed connect whose peer hook has the name of a
\* wormhole's hook (the collapse connect, or a connect to a hook of that name
\* given in a spec) is reported by its errno, every other failed connect with
\* the generic message; each ends the process that made it with exit code
\* 65, and after a helper's the parent ends with EX_OSERR.
C24_ClassifiedByHook ==
    \A p \in Reports :
        /\ trace[p][2] = IF PeerHookAt(p) = NG_WORMHOLE_HOOK
                         THEN ByErrno(trace[p - 1][2])
                         ELSE "unable to connect"
        /\ ExitsDataErr(p)
        /\ (trace[p][1] = "c:stderr" /\ pc = "exit") =>
              \E q \in (p + 1)..Len(trace) : trace[q] = <<"err", EX_OSERR>>

\* a helper's connect to a hook named as a wormhole's failed with EINVAL and
\* was reported as far side not opened; the parent has ended
C24_Witness ==
    /\ pc = "exit" /\ ChildFailed
    /\ opts.hook[child.of + 1] = NG_WORMHOLE_HOOK
    /\ \E p \in Reports : /\ trace[p] = <<"c:stderr", "not opened">>
                           /\ trace[p - 1] = <<"c:errno", EINVAL>>
                           /\ trace[p - 2][1] = "c:NGM_CONNECT"


\* C30: ngportal's err_cleanup never runs, in the parent or in a helper
\* child, with G.fd = -1: its assertion never fails, and (built without
\* assertions) it never closes descriptor -1.
C30_HandlerHasContext ==
    /\ ~Has({"assert", "c:assert"})
    /\ \A p \in 1..Len(trace) :
          trace[p][1] \in {"close", "c:close"} => trace[p][2] # -1


----------------------------------------------------------------------------
(* Claims about ngpcap's option -s, checked under SpecSnaplen *)

\* the argument is a decimal integer: digits, with or without a sign
IsDecimal(s) ==
    LET from == IF Len(s) >= 1 /\ s[1] \in {"-", "+"} THEN 2 ELSE 1
    IN  /\ from <= Len(s)
        /\ \A i \in from..Len(s) : DigitValue(s[i]) # -1

\* the integer it writes
ValueOf(s) ==
    IF s[1] = "-" THEN 0 - Decimal(s, 2, Len(s))
    ELSE IF s[1] = "+" THEN Decimal(s, 2, Len(s))
    ELSE Decimal(s, 1, Len(s))

\* the argument is a decimal integer N with min <= N <= max
InRange(s) ==
    /\ IsDecimal(s)
    /\ NG_PACP_MIN_SNAPLEN <= ValueOf(s)
    /\ ValueOf(s) <= NG_PACP_MAX_SNAPLEN

\* C25: once case 's' is done, the argument was accepted iff it is a decimal
\* integer N with min <= N <= max, and then snaplen = N; every other
\* argument, however large, has ended in a usage error.
C25_SnaplenInRange ==
    pc # "getopt" =>
        IF InRange(opts.optarg)
        THEN pc = "parsed" /\ snaplen = ValueOf(opts.optarg)
        ELSE pc = "exit" /\ Has({"Usage"})


----------------------------------------------------------------------------
(* Claims about the iterations of the readiness loop, checked under Spec *)

\* the condition under which the loop is to pass the entry of a side
Wanted(rb, snap, side) ==
    IF side = READ THEN ring32_free(rb) >= snap ELSE ~ring32_empty(rb)

\* for every ring and snaplen, those of no run included (a ring too small
\* for snaplen is empty with free < snaplen), the change-list has exactly
\* the wanted sides
ChangeListTable ==
    \A cap \in Pow2s : \A n \in 0..cap : \A snap \in 1..(2 ^ MaxLgCap + 1) :
        LET rb == [capacity |-> cap, mask |-> cap - 1, start |-> 0, end |-> n]
        IN  ChangeList(rb, snap) = {side \in Sides : Wanted(rb, snap, side)}

\* C26: in each iteration the READ entry is passed to kevent iff free(ring)
\* >= snaplen and the WRITE entry iff the ring is not empty; an entry that is
\* passed carries EV_ENABLE and EV_DISPATCH and the kernel applies it; an
\* entry that is not passed is left as it was, flags included.
C26_ChangeList ==
    [][(pc = "loop" /\ pc' = "wait") =>
          /\ ChangeListTable
          /\ \A side \in Sides :
                IF Wanted(ring, snaplen, side)
                THEN /\ {"EV_ENABLE", "EV_DISPATCH"} \subseteq evt'[side]
                     /\ "EV_ADD" \notin evt'[side]
                     /\ kq'[side] = kevent_change(kq[side], evt'[side], kqRetakes)
                     /\ kq'[side].enabled
                     /\ armed'[side]
                ELSE /\ evt'[side] = evt[side]
                     /\ kq'[side] = kq[side]
                     /\ armed'[side] = armed[side]]_vars

\* an iteration has passed the WRITE entry alone: the ring holds bytes and
\* has less than snaplen free, and the READ entry is as the kernel left it
C26_Witness ==
    /\ pc = "wait"
    /\ ~Wanted(ring, snaplen, READ) /\ Wanted(ring, snaplen, WRITE)
    /\ kq[WRITE].enabled /\ armed[WRITE] /\ ~armed[READ]
    /\ Len(tx) > 0


\* the capacity is the smallest power-of-two number of pages that holds
\* three times snaplen
HoldsThreeSnaplen ==
    /\ \E lg \in 0..CounterBits : ring.capacity = PageSize * 2 ^ lg
    /\ ring.capacity >= 3 * snaplen
    /\ ring.capacity > PageSize => ring.capacity \div 2 < 3 * snaplen

\* C27: with the ring sized for 3 * snaplen it is never so that free(ring) <
\* snaplen while the ring is empty; the change-list of an iteration is never
\* empty, and assert(ix != 0) before the wait never fails.
C27_OneSideEnabled ==
    /\ aborted # "ix"
    /\ InLoop =>
          /\ HoldsThreeSnaplen
          /\ ~(ring32_free(ring) < snaplen /\ ring32_empty(ring))
          /\ ChangeList(ring, snaplen) # {}
          /\ pc = "loop" => ix # 0

\* the loop has come round with the ring drained: only the READ entry is on
\* the change-list
C27_Witness ==
    /\ pc = "loop" /\ Len(tx) > 0
    /\ ring32_empty(ring)
    /\ ChangeList(ring, snaplen) = {READ}


\* C28: a callback makes one system call per invocation: when read or write
\* fails with EAGAIN the callback is back in main's for loop and does not
\* call again, so no invocation is ever at a pass after its first.
C28_OneIoPerCall ==
    InLoop => last = NoCall

\* a step of read_event or of ring32_read_advance
ProducerStep ==
    \/ pc = "read_event"
    \/ pc = "ops" /\ last'.op = "read_advance"

\* a step of write_event or of ring32_write_advance
ConsumerStep ==
    \/ pc = "write_event"
    \/ pc = "ops" /\ last'.op = "write_advance"

\* a call of ring32_count, ring32_free, ring32_full, ring32_empty,
\* ring32_read_buffer or ring32_write_buffer
QueryStep == pc = "ops" /\ last'.op \in Queries

\* C29: single-producer single-consumer discipline: read_event and
\* ring32_read_advance leave the consumer counter start as it was,
\* write_event and ring32_write_advance leave the producer counter end as it
\* was, neither changes capacity or mask, and the six queries change nothing
\* of the ring or of its memory
C29_Discipline ==
    [][ /\ ProducerStep => ring'.start = ring.start
        /\ ConsumerStep => ring'.end = ring.end
        /\ (ProducerStep \/ ConsumerStep)
              => ring'.capacity = ring.capacity /\ ring'.mask = ring.mask
        /\ QueryStep => ring' = ring /\ mem' = mem ]_vars

\* both callbacks have moved their own counter: bytes were read in and
\* some of them written out, the rest still waiting in the ring
C29_Witness ==
    /\ InLoop /\ aborted = "none"
    /\ tx # <<>> /\ Len(rx) > Len(tx)
    /\ ring.start # 0 /\ ring.end # ring.start
    /\ ring.end = U32(Len(rx)) /\ ring.start = U32(Len(tx))

====
